---- MODULE Spec2Model ----
(***************************************************************************)
(* A model of Bio/SeqIO/SffIO.py (the SFF binary codec) and of             *)
(* Bio/SeqIO/_index.py (the key -> offset index over sequence files).      *)
(*                                                                         *)
(* A binary file is a sequence of bytes (0..255); a text file is a         *)
(* sequence of symbols in which a fixed keyword of a format ("LOCUS ",     *)
(* "VERSION ", ...) is one symbol.  A handle position is the number of     *)
(* bytes (symbols) before it, as handle.tell() reports it.                 *)
(***************************************************************************)
EXTENDS Integers, Sequences, FiniteSets, TLC

VARIABLES
    pc,        \* position of the running scenario
    src,       \* SFF codec: the bytes of the input file
    hdr,       \* SFF codec: the values _sff_file_header returned
    rpos,      \* SFF codec: position of the reading handle
    recs,      \* SFF codec: the records decoded with trim=False
    recsT,     \* SFF codec: the same reads decoded with trim=True
    stored,    \* SFF codec: the clip fields as stored, per read decoded
    out,       \* SFF writer: the output handle [data, pos]
    w,         \* SFF writer: the fields of the SffWriter object
    todo,      \* SFF writer: records not yet written
    wlog,      \* SFF writer: the handle position at each write_record call
    err,       \* the exception that ended the scenario, or "none"
    fmt,       \* index: the format name given to the facade
    key_function, \* index: "none" (None) or the name of the key function
    backend,   \* index: "memory" (no index_filename) or "sqlite"
    handle,    \* index: the content of the data file the facade has open
    offsets,   \* index: the in-memory dict, a set of <<key, offset>>
    db,        \* index: the SQLite file [exists, rows, unique]
    pending,   \* index: _SqliteOffsetDict._pending
    scan,      \* index: what the running scanner has yet to yield [pairs, err]
    recorded,  \* index: the _record_key calls of this build, <<key, offset, id>>
    got,       \* index: the outcome of the last operation when it was a
               \* __getitem__ [key, err, id, before]; before: the exception
               \* of the __getitem__ just before it on this facade
    hpos,      \* index: where the last __getitem__ or get_raw left the handle
    call,      \* index: the outcome of the last operation when it was another
               \* method of the facade [op, key, err, raw, val]
    mode,      \* index: the constructor's branch: "memory", "create", "reuse"
    arg,       \* functions: the argument a function is called with
    ret        \* functions: what the call returned or raised

codecvars == <<rpos, recs, recsT, stored, out, w, todo, wlog>>
indexvars == <<fmt, key_function, backend, handle, offsets, db, pending, scan,
               recorded, got, hpos, call, mode>>
fnvars == <<arg, ret>>
vars == <<pc, src, hdr, err, codecvars, indexvars, fnvars>>

------------------------------------------------------------------------------
(* Bounds of the model. *)

MaxReads == 2
MaxSeqLen == 2

------------------------------------------------------------------------------
(* Bytes, struct.pack / struct.unpack (big endian), handles. *)

Min(a, b) == IF a < b THEN a ELSE b
Max(a, b) == IF a > b THEN a ELSE b

Zeros(n) == IF n <= 0 THEN <<>> ELSE [i \in 1..n |-> 0]

RECURSIVE PackBE(_, _)
PackBE(v, n) == IF n = 0 THEN <<>> ELSE Append(PackBE(v \div 256, n - 1), v % 256)

RECURSIVE UnpackBE(_)
UnpackBE(bs) ==
    IF bs = <<>> THEN 0
    ELSE 256 * UnpackBE(SubSeq(bs, 1, Len(bs) - 1)) + bs[Len(bs)]

\* handle.read(n) at position pos: at most n bytes, fewer at the end of the
\* file; a negative n reads to the end of the file.
Read(data, pos, n) ==
    IF pos >= Len(data) THEN <<>>
    ELSE IF n < 0 THEN SubSeq(data, pos + 1, Len(data))
    ELSE SubSeq(data, pos + 1, Min(pos + n, Len(data)))

\* handle.write(bs) at position pos of a seekable handle: overwrites, extends.
WriteAt(data, pos, bs) ==
    SubSeq(data, 1, pos) \o bs \o
    (IF pos + Len(bs) >= Len(data) THEN <<>>
     ELSE SubSeq(data, pos + Len(bs) + 1, Len(data)))

\* Python's s[a:b] for 0 <= a, 0 <= b.
Slice(s, a, b) ==
    IF Min(a, Len(s)) >= Min(b, Len(s)) THEN <<>>
    ELSE SubSeq(s, Min(a, Len(s)) + 1, Min(b, Len(s)))

\* str.upper() and str.lower() on ASCII bytes.
Upper(s) == [i \in DOMAIN s |-> IF s[i] >= 97 /\ s[i] <= 122 THEN s[i] - 32 ELSE s[i]]
Lower(s) == [i \in DOMAIN s |-> IF s[i] >= 65 /\ s[i] <= 90 THEN s[i] + 32 ELSE s[i]]

------------------------------------------------------------------------------
(* _sff_file_header *)

SffMagic == 779314790
IndexMagic == 778921588

NoHeader(kind) ==
    [err |-> kind, header_length |-> 0, index_offset |-> 0, index_length |-> 0,
     number_of_reads |-> 0, number_of_flows_per_read |-> 0,
     flow_chars |-> <<>>, key_sequence |-> <<>>, pos |-> 0]

\* The header read at position pos; pos of the result is where the handle is
\* left (at the first read record).
SffFileHeader(data, pos) ==
    LET raw == Read(data, pos, 31) IN
    IF Len(raw) < 31 THEN NoHeader("struct.error")
    ELSE
    LET magic_number == UnpackBE(SubSeq(raw, 1, 4))
        ver == SubSeq(raw, 5, 8)
        index_offset == UnpackBE(SubSeq(raw, 9, 16))
        index_length == UnpackBE(SubSeq(raw, 17, 20))
        number_of_reads == UnpackBE(SubSeq(raw, 21, 24))
        header_length == UnpackBE(SubSeq(raw, 25, 26))
        key_length == UnpackBE(SubSeq(raw, 27, 28))
        nflows == UnpackBE(SubSeq(raw, 29, 30))
        flowgram_format == raw[31]
        flow_chars == Read(data, pos + 31, nflows)
        key_sequence == Read(data, pos + 31 + Len(flow_chars), key_length)
        p2 == pos + 31 + Len(flow_chars) + Len(key_sequence)
        padding == header_length - nflows - key_length - 31
        pad == Read(data, p2, padding)
    IN  IF magic_number # SffMagic THEN NoHeader("ValueError")
        ELSE IF ver # <<0, 0, 0, 1>> THEN NoHeader("ValueError")
        ELSE IF flowgram_format # 1 THEN NoHeader("ValueError")
        ELSE IF (index_offset # 0) # (index_length # 0) THEN NoHeader("ValueError")
        ELSE IF header_length % 8 # 0 THEN NoHeader("AssertionError")
        ELSE IF ~(0 <= padding /\ padding < 8) THEN NoHeader("AssertionError")
        ELSE IF Zeros(padding) # pad THEN NoHeader("ValueError")
        ELSE [err |-> "none", header_length |-> header_length,
              index_offset |-> index_offset, index_length |-> index_length,
              number_of_reads |-> number_of_reads,
              number_of_flows_per_read |-> nflows,
              flow_chars |-> flow_chars, key_sequence |-> key_sequence,
              pos |-> p2 + Len(pad)]

------------------------------------------------------------------------------
(* _sff_read_seq_record *)

\* A SeqRecord: ann is the set of keys of record.annotations, letter the set
\* of keys of record.letter_annotations.
NoRecord ==
    [id |-> <<>>, seq |-> <<>>, letter |-> {}, quals |-> <<>>, ann |-> {},
     flow_values |-> <<>>, flow_index |-> <<>>, flow_chars |-> <<>>,
     flow_key |-> <<>>, clip_qual_left |-> 0, clip_qual_right |-> 0,
     clip_adapter_left |-> 0, clip_adapter_right |-> 0]

FlowKeys == {"flow_values", "flow_index", "flow_chars", "flow_key"}
ClipKeys == {"clip_qual_left", "clip_qual_right",
             "clip_adapter_left", "clip_adapter_right"}

\* "if clip_qual_left : clip_qual_left -= 1 #python counting"
DecodeClipLeft(v) == IF v # 0 THEN v - 1 ELSE v
\* (mutant) the right clip fields shifted like the left ones.
DecodeClipRightShifted(v) == IF v # 0 THEN v - 1 ELSE v
\* clip_qual_right and clip_adapter_right are used as unpacked.
DecodeClipRight(v) == v

\* The sequence of a trimmed record.
TrimSeq(seq, clip_qual_left, clip_qual_right) ==
    Upper(Slice(seq, clip_qual_left, clip_qual_right))
TrimQuals(quals, clip_qual_left, clip_qual_right) ==
    Slice(quals, clip_qual_left, clip_qual_right)
\* The mixed case sequence of an untrimmed record.
MixedCaseSeq(seq, clip_qual_left, clip_qual_right) ==
    Lower(Slice(seq, 0, clip_qual_left))
    \o Upper(Slice(seq, clip_qual_left, clip_qual_right))
    \o Lower(Slice(seq, clip_qual_right, Len(seq)))

\* The 16 byte fixed part of a read header, unpacked as stored.
ReadHeaderFields(raw) ==
    [read_header_length |-> UnpackBE(SubSeq(raw, 1, 2)),
     name_length |-> UnpackBE(SubSeq(raw, 3, 4)),
     seq_len |-> UnpackBE(SubSeq(raw, 5, 8)),
     clip_qual_left |-> UnpackBE(SubSeq(raw, 9, 10)),
     clip_qual_right |-> UnpackBE(SubSeq(raw, 11, 12)),
     clip_adapter_left |-> UnpackBE(SubSeq(raw, 13, 14)),
     clip_adapter_right |-> UnpackBE(SubSeq(raw, 15, 16))]

RECURSIVE UnpackU16s(_)
UnpackU16s(bs) ==
    IF Len(bs) < 2 THEN <<>>
    ELSE <<UnpackBE(SubSeq(bs, 1, 2))>> \o UnpackU16s(SubSeq(bs, 3, Len(bs)))

\* The read record at position pos: [err, pos, rec].
SffReadSeqRecord(data, pos, nflows, flow_chars, key_sequence, trim) ==
    LET read_header_size == 16
        read_flow_size == 2 * nflows
        raw == Read(data, pos, read_header_size)
        Fail(kind) == [err |-> kind, pos |-> pos, rec |-> NoRecord]
    IN
    IF Len(raw) < read_header_size THEN Fail("struct.error")
    ELSE
    LET f == ReadHeaderFields(raw)
        clip_qual_left == DecodeClipLeft(f.clip_qual_left)
        clip_adapter_left == DecodeClipLeft(f.clip_adapter_left)
        clip_qual_right == DecodeClipRight(f.clip_qual_right)
        clip_adapter_right == DecodeClipRight(f.clip_adapter_right)
        p1 == pos + read_header_size
        name == Read(data, p1, f.name_length)
        p2 == p1 + Len(name)
        padding == f.read_header_length - read_header_size - f.name_length
        pad == Read(data, p2, padding)
        p3 == p2 + Len(pad)
        flow_raw == Read(data, p3, read_flow_size)
        p4 == p3 + Len(flow_raw)
        flow_index == Read(data, p4, f.seq_len)
        p5 == p4 + Len(flow_index)
        seq == Read(data, p5, f.seq_len)
        p6 == p5 + Len(seq)
        quals == Read(data, p6, f.seq_len)
        p7 == p6 + Len(quals)
        rem == (read_flow_size + f.seq_len * 3) % 8
        padding2 == IF rem # 0 THEN 8 - rem ELSE 0
        pad2 == Read(data, p7, padding2)
        p8 == p7 + Len(pad2)
    IN  IF f.read_header_length < 10 \/ f.read_header_length % 8 # 0
            THEN Fail("ValueError")
        ELSE IF Zeros(padding) # pad THEN Fail("ValueError")
        ELSE IF Len(flow_raw) < read_flow_size THEN Fail("struct.error")
        ELSE IF Len(flow_index) < f.seq_len THEN Fail("struct.error")
        ELSE IF Len(quals) < f.seq_len THEN Fail("struct.error")
        ELSE IF Zeros(padding2) # pad2 THEN Fail("ValueError")
        ELSE [err |-> "none", pos |-> p8,
              rec |->
                IF trim
                THEN [NoRecord EXCEPT
                        !.id = name,
                        !.seq = TrimSeq(seq, clip_qual_left, clip_qual_right),
                        !.letter = {"phred_quality"},
                        !.quals = TrimQuals(quals, clip_qual_left, clip_qual_right)]
                ELSE [id |-> name,
                      seq |-> MixedCaseSeq(seq, clip_qual_left, clip_qual_right),
                      letter |-> {"phred_quality"},
                      quals |-> quals,
                      ann |-> FlowKeys \cup ClipKeys,
                      flow_values |-> UnpackU16s(flow_raw),
                      flow_index |-> flow_index,
                      flow_chars |-> flow_chars,
                      flow_key |-> key_sequence,
                      clip_qual_left |-> clip_qual_left,
                      clip_qual_right |-> clip_qual_right,
                      clip_adapter_left |-> clip_adapter_left,
                      clip_adapter_right |-> clip_adapter_right]]

------------------------------------------------------------------------------
(* SffWriter *)

RoundUp8(n) == IF n % 8 = 0 THEN n ELSE n + (8 - (n % 8))

\* SffWriter.__init__(handle, index, xml): xml_is_str is isinstance(xml, str).
NewWriter(index, xml_is_str, xml) ==
    [index_on |-> index, index |-> <<>>, xml_is_str |-> xml_is_str, xml |-> xml,
     number_of_reads |-> 0, index_start |-> 0, index_length |-> 0,
     has_flow |-> FALSE, key_sequence |-> <<>>, flow_chars |-> <<>>,
     number_of_flows_per_read |-> 0]

\* The bytes write_header hands to handle.write.
HeaderBytes(wr) ==
    LET key_length == Len(wr.key_sequence)
        size == 31 + wr.number_of_flows_per_read + key_length
        padding == IF size % 8 = 0 THEN 0 ELSE 8 - (size % 8)
        header_length == size + padding
    IN  PackBE(SffMagic, 4) \o <<0, 0, 0, 1>>
        \o PackBE(wr.index_start, 8) \o PackBE(wr.index_length, 4)
        \o PackBE(wr.number_of_reads, 4)
        \o PackBE(header_length, 2) \o PackBE(key_length, 2)
        \o PackBE(wr.number_of_flows_per_read, 2) \o <<1>>
        \o wr.flow_chars \o wr.key_sequence \o Zeros(padding)

\* (mutant) a write that inserts the header bytes at the handle position
\* instead of overwriting what is there.
WriteHeaderInserted(wr, h) ==
    [data |-> SubSeq(h.data, 1, h.pos) \o HeaderBytes(wr)
              \o SubSeq(h.data, h.pos + 1, Len(h.data)),
     pos |-> h.pos + Len(HeaderBytes(wr))]
\* write_header: the handle after the write.
WriteHeader(wr, h) ==
    [data |-> WriteAt(h.data, h.pos, HeaderBytes(wr)),
     pos |-> h.pos + Len(HeaderBytes(wr))]

\* "if clip_qual_left : clip_qual_left += 1"
EncodeClipLeft(v) == IF v # 0 THEN v + 1 ELSE v
\* clip_qual_right and clip_adapter_right are packed as annotated.
EncodeClipRight(v) == v

RECURSIVE PackU16s(_)
PackU16s(vs) ==
    IF vs = <<>> THEN <<>> ELSE PackBE(vs[1], 2) \o PackU16s(Tail(vs))

\* (mutant) the bytes of a record without the padding after the qualities.
RecordBytesUnpadded(wr, record) ==
    LET size == 16 + Len(record.id)
        padding == IF size % 8 = 0 THEN 0 ELSE 8 - (size % 8)
    IN  PackBE(size + padding, 2) \o PackBE(Len(record.id), 2)
        \o PackBE(Len(record.seq), 4)
        \o PackBE(EncodeClipLeft(record.clip_qual_left), 2)
        \o PackBE(EncodeClipRight(record.clip_qual_right), 2)
        \o PackBE(EncodeClipLeft(record.clip_adapter_left), 2)
        \o PackBE(EncodeClipRight(record.clip_adapter_right), 2)
        \o record.id \o Zeros(padding)
        \o PackU16s(record.flow_values) \o record.flow_index \o Upper(record.seq)
        \o record.quals
\* The bytes write_record hands to handle.write for a record that passed
\* its checks.
RecordBytes(wr, record) ==
    LET name == record.id
        name_len == Len(name)
        seq == Upper(record.seq)
        seq_len == Len(seq)
        size == 16 + name_len
        padding == IF size % 8 = 0 THEN 0 ELSE 8 - (size % 8)
        read_header_length == size + padding
        read_flow_size == 2 * wr.number_of_flows_per_read
        rem == (read_flow_size + seq_len * 3) % 8
        padding2 == IF rem # 0 THEN 8 - rem ELSE 0
    IN  PackBE(read_header_length, 2) \o PackBE(name_len, 2) \o PackBE(seq_len, 4)
        \o PackBE(EncodeClipLeft(record.clip_qual_left), 2)
        \o PackBE(EncodeClipRight(record.clip_qual_right), 2)
        \o PackBE(EncodeClipLeft(record.clip_adapter_left), 2)
        \o PackBE(EncodeClipRight(record.clip_adapter_right), 2)
        \o name \o Zeros(padding)
        \o PackU16s(record.flow_values) \o record.flow_index \o seq \o record.quals
        \o Zeros(padding2)

\* A capture that leaves a read out of the index list when its name is not
\* of 14 characters, and keeps the list.
CaptureIndexSkipping(wr, name, tell) ==
    IF ~wr.index_on \/ Len(name) # 14 THEN wr
    ELSE [wr EXCEPT !.index = Append(@, <<name, tell>>)]
\* What write_record does with the index list before it packs the record.
CaptureIndex(wr, name, tell) ==
    IF ~wr.index_on THEN wr
    ELSE IF Len(name) # 14 THEN [wr EXCEPT !.index_on = FALSE, !.index = <<>>]
    ELSE [wr EXCEPT !.index = Append(@, <<name, tell>>)]

\* A write_record that notes the index entry before it looks at the
\* record's annotations.
WriteRecordCaptureFirst(wr, h, record) ==
    [err |-> IF "phred_quality" \in record.letter
                /\ (FlowKeys \cup ClipKeys) \subseteq record.ann
                /\ wr.key_sequence = record.flow_key /\ wr.flow_chars = record.flow_chars
             THEN "none" ELSE "ValueError",
     w |-> CaptureIndex(wr, record.id, h.pos),
     h |-> h]
\* write_record: [err, w, h].
WriteRecord(wr, h, record) ==
    LET Fail(kind, wr2) == [err |-> kind, w |-> wr2, h |-> h] IN
    IF "phred_quality" \notin record.letter THEN Fail("ValueError", wr)
    ELSE IF ~(FlowKeys \subseteq record.ann) \/ ~wr.has_flow THEN Fail("ValueError", wr)
    ELSE IF wr.key_sequence # record.flow_key \/ wr.flow_chars # record.flow_chars
        THEN Fail("ValueError", wr)
    ELSE IF ~(ClipKeys \subseteq record.ann) THEN Fail("ValueError", wr)
    ELSE
    LET wr2 == CaptureIndex(wr, record.id, h.pos) IN
    IF Len(record.flow_values) # wr.number_of_flows_per_read
       \/ Len(record.flow_index) # Len(record.seq)
       \/ Len(record.quals) # Len(record.seq)
        THEN Fail("struct.error", wr2)
    ELSE [err |-> "none", w |-> wr2,
          h |-> [data |-> WriteAt(h.data, h.pos, RecordBytes(wr, record)),
                 pos |-> h.pos + Len(RecordBytes(wr, record))]]

\* Order of Python strings (byte sequences) and of (name, offset) tuples.
RECURSIVE BytesLess(_, _)
BytesLess(a, b) ==
    IF a = <<>> THEN b # <<>>
    ELSE IF b = <<>> THEN FALSE
    ELSE IF a[1] # b[1] THEN a[1] < b[1]
    ELSE BytesLess(Tail(a), Tail(b))

EntryLess(x, y) == BytesLess(x[1], y[1]) \/ (x[1] = y[1] /\ x[2] < y[2])

RECURSIVE Insert(_, _)
Insert(x, s) ==
    IF s = <<>> THEN <<x>>
    ELSE IF EntryLess(s[1], x) THEN <<s[1]>> \o Insert(x, Tail(s))
    ELSE <<x>> \o s

\* The list left in the order of the writes.
SortIndexSkipped(s) == s

\* list.sort() of the (name, offset) tuples.
RECURSIVE SortIndex(_)
SortIndex(s) == IF s = <<>> THEN <<>> ELSE Insert(s[1], SortIndex(Tail(s)))

\* The text _write_index records when no xml string was given; its actual
\* wording holds the Biopython version and is not modelled.
DefaultXml == <<60, 33, 45, 45, 62, 10>>

\* (mutant) the digits of the offset to the base 256.
OffsetDigits256(offset) ==
    <<offset \div 16777216, (offset \div 65536) % 256, (offset \div 256) % 256,
      offset % 256>>
\* The four digits _write_index packs for an offset, most significant
\* first: off3//16581375, off2//65025, off1//255, off0.
OffsetDigits(offset) ==
    LET off0 == offset % 255
        a == offset - off0
        off1 == a % 65025
        b == a - off1
        off2 == b % 16581375
        off3 == b - off2
    IN  <<off3 \div 16581375, off2 \div 65025, off1 \div 255, off0>>

\* (mutant) the two low digits taken in the other order.
DecodeOffsetSwapped(digits) ==
    digits[3] + 255 * digits[4] + 65025 * digits[2] + 16581375 * digits[1]
\* "offset = off0 + 255*off1 + 65025*off2 + 16581375*off3" of
\* _sff_read_roche_index, on the digits as they stand in the entry.
DecodeOffset(digits) ==
    digits[4] + 255 * digits[3] + 65025 * digits[2] + 16581375 * digits[1]

\* The 20 byte index entry of a read.
IndexEntryBytes(name, offset) == name \o <<0>> \o OffsetDigits(offset) \o <<255>>

RECURSIVE IndexDataBytes(_)
IndexDataBytes(index) ==
    IF index = <<>> THEN <<>>
    ELSE IndexEntryBytes(index[1][1], index[1][2]) \o IndexDataBytes(Tail(index))

\* _write_index: [err, w, h].
WriteIndex(wr, h) ==
    IF Len(wr.index) # wr.number_of_reads
        THEN [err |-> "AssertionError", w |-> wr, h |-> h]
    ELSE
    LET index == SortIndex(wr.index)
        xml == IF wr.xml_is_str THEN wr.xml ELSE DefaultXml
        xml_len == Len(xml)
        index_len == Len(index) * 20
        block == PackBE(IndexMagic, 4) \o <<49, 46, 48, 48>>
                 \o PackBE(xml_len, 4) \o PackBE(index_len, 4) \o xml
                 \o IndexDataBytes(index)
        index_length == 16 + xml_len + index_len
        padding == IF index_length % 8 # 0 THEN 8 - (index_length % 8) ELSE 0
        data2 == WriteAt(h.data, h.pos, block \o Zeros(padding))
        offset == h.pos + Len(block) + padding
        wr2 == [wr EXCEPT !.index = index, !.index_start = h.pos,
                          !.index_length = index_length]
    IN  [err |-> "none", w |-> wr2,
         h |-> [data |-> WriteHeader(wr2, [data |-> data2, pos |-> 0]).data,
                pos |-> offset]]

\* A handle just opened for writing.
NoHandle == [data |-> <<>>, pos |-> 0]

\* (mutant) the record count is noted but the header is left as it was
\* first written.
PatchCountSkipped(wr, h, count) ==
    IF wr.number_of_reads = 0
    THEN [err |-> "none", w |-> [wr EXCEPT !.number_of_reads = count], h |-> h]
    ELSE [err |-> IF count = wr.number_of_reads THEN "none" ELSE "AssertionError",
          w |-> wr, h |-> h]
\* write_file after its loop, count records written: when the count was
\* not known at the start (_number_of_reads is the dummy 0) the header is
\* written again at offset 0 and the handle put back; else the count is
\* asserted. [err, w, h].
PatchCount(wr, h, count) ==
    IF wr.number_of_reads = 0
    THEN LET wr2 == [wr EXCEPT !.number_of_reads = count]
         IN  [err |-> "none", w |-> wr2,
              h |-> [data |-> WriteHeader(wr2, [data |-> h.data, pos |-> 0]).data,
                     pos |-> h.pos]]
    ELSE [err |-> IF count = wr.number_of_reads THEN "none" ELSE "AssertionError",
          w |-> wr, h |-> h]

\* write_file's loop "for record in records: self.write_record(record)",
\* from the outcome r of the writes before it; it ends at the first
\* record that fails.
RECURSIVE WriteRecords(_, _)
WriteRecords(r, records) ==
    IF r.err # "none" \/ records = <<>> THEN r
    ELSE WriteRecords(WriteRecord(r.w, r.h, records[1]), Tail(records))

\* SffWriter(handle, index, xml).write_file(records) on a fresh handle,
\* with the records given as a list (as_list) or as an iterator:
\* [err, count, data], count being the value returned.
WriteFile(records, as_list, index, xml_is_str, xml) ==
    LET w1 == [NewWriter(index, xml_is_str, xml)
                  EXCEPT !.number_of_reads = IF as_list THEN Len(records) ELSE 0]
        Fail(kind, h) == [err |-> kind, count |-> 0, data |-> h.data]
    IN  IF records = <<>> THEN Fail("ValueError", NoHandle)
        ELSE IF ~({"flow_key", "flow_chars"} \subseteq records[1].ann)
            THEN Fail("ValueError", NoHandle)
        ELSE
        LET w2 == [w1 EXCEPT !.has_flow = TRUE,
                             !.key_sequence = records[1].flow_key,
                             !.flow_chars = records[1].flow_chars,
                             !.number_of_flows_per_read = Len(records[1].flow_chars)]
            written == WriteRecords([err |-> "none", w |-> w2,
                                     h |-> WriteHeader(w2, NoHandle)], records)
        IN  IF written.err # "none" THEN Fail(written.err, written.h)
            ELSE
            LET patched == PatchCount(written.w, written.h, Len(records))
            IN  IF patched.err # "none" THEN Fail(patched.err, patched.h)
                ELSE IF ~patched.w.index_on
                    THEN [err |-> "none", count |-> Len(records), data |-> patched.h.data]
                ELSE
                LET indexed == WriteIndex(patched.w, patched.h)
                IN  IF indexed.err # "none" THEN Fail(indexed.err, indexed.h)
                    ELSE [err |-> "none", count |-> Len(records),
                          data |-> indexed.h.data]

\* write_file on a handle that has seek and tell or has neither: without
\* them an iterator of records is refused, and the index is given up.
WriteFileOn(records, as_list, index, xml_is_str, xml, seekable) ==
    IF ~as_list /\ ~seekable THEN [err |-> "ValueError", count |-> 0, data |-> <<>>]
    ELSE WriteFile(records, as_list, index /\ seekable, xml_is_str, xml)

------------------------------------------------------------------------------
(* _sff_find_roche_index, _sff_read_roche_index_xml *)

NoIndex(kind) ==
    [err |-> kind, number_of_reads |-> 0, header_length |-> 0,
     index_offset |-> 0, index_length |-> 0, xml_offset |-> 0, xml_size |-> 0,
     read_index_offset |-> 0, read_index_size |-> 0]

SffFindRocheIndex(data) ==
    LET h == SffFileHeader(data, 0) IN
    IF h.err # "none" THEN NoIndex(h.err)
    ELSE IF h.pos # h.header_length THEN NoIndex("AssertionError")
    ELSE IF h.index_offset = 0 THEN NoIndex("ValueError")
    ELSE
    LET fmt_size == 16
        raw == Read(data, h.index_offset, fmt_size)
    IN  IF Len(raw) < fmt_size THEN NoIndex("struct.error")
        ELSE
        LET magic_number == UnpackBE(SubSeq(raw, 1, 4))
            ver == SubSeq(raw, 5, 8)
            xml_size == UnpackBE(SubSeq(raw, 9, 12))
            data_size == UnpackBE(SubSeq(raw, 13, 16))
        IN  IF magic_number # IndexMagic THEN NoIndex("ValueError")
            ELSE IF ver # <<49, 46, 48, 48>> THEN NoIndex("ValueError")
            ELSE IF h.index_length # fmt_size + xml_size + data_size
                THEN NoIndex("ValueError")
            ELSE IF data_size # 20 * h.number_of_reads THEN NoIndex("ValueError")
            ELSE [err |-> "none", number_of_reads |-> h.number_of_reads,
                  header_length |-> h.header_length,
                  index_offset |-> h.index_offset,
                  index_length |-> h.index_length,
                  xml_offset |-> h.index_offset + fmt_size,
                  xml_size |-> xml_size,
                  read_index_offset |-> h.index_offset + fmt_size + xml_size,
                  read_index_size |-> data_size]

\* [err, xml]
SffReadRocheIndexXml(data) ==
    LET f == SffFindRocheIndex(data) IN
    [err |-> f.err,
     xml |-> IF f.err = "none" THEN Read(data, f.xml_offset, f.xml_size) ELSE <<>>]

------------------------------------------------------------------------------
(* The input files: SFF files laid out field by field as the format has    *)
(* them, from a few parameters.                                            *)

FlowChars == <<84>>              \* "T"
KeySequence == <<84, 67, 65, 71>> \* "TCAG"
OrigXml == <<60, 47, 62>>        \* "</>"

\* The k-th read name, 14 characters.
ReadName(k) == [i \in 1..14 |-> IF i = 14 THEN 64 + k ELSE 69]
BasesOf(n) == [i \in 1..n |-> <<65, 67, 71, 84>>[((i - 1) % 4) + 1]]
QualsOf(n) == [i \in 1..n |-> 30 + i]
FlowIndexOf(n) == [i \in 1..n |-> 1]

ReadShapes ==
    [seq_len : 0..MaxSeqLen, cql : 0..MaxSeqLen, cqr : 0..MaxSeqLen,
     adapter : {<<0, 0>>, <<1, 2>>, <<2, 1>>}]
DefaultShape == [seq_len |-> 1, cql |-> 0, cqr |-> 1, adapter |-> <<0, 0>>]

ReadLayout(name, sh) ==
    LET hlen == RoundUp8(16 + Len(name))
        body == 2 * Len(FlowChars) + 3 * sh.seq_len
    IN  PackBE(hlen, 2) \o PackBE(Len(name), 2) \o PackBE(sh.seq_len, 4)
        \o PackBE(sh.cql, 2) \o PackBE(sh.cqr, 2)
        \o PackBE(sh.adapter[1], 2) \o PackBE(sh.adapter[2], 2)
        \o name \o Zeros(hlen - 16 - Len(name))
        \o PackBE(100, 2) \o FlowIndexOf(sh.seq_len) \o BasesOf(sh.seq_len)
        \o QualsOf(sh.seq_len) \o Zeros(RoundUp8(body) - body)

Base255(off) ==
    <<(off \div 16581375) % 255, (off \div 65025) % 255, (off \div 255) % 255, off % 255>>

\* The file of n reads in which read number at has shape sh and the others the
\* default shape. Read k is named ReadName(n + 1 - k), so the reads are not
\* in name order; the index block lists them in name order.
RECURSIVE ReadsLayout(_, _, _, _)
ReadsLayout(k, n, at, sh) ==
    IF k > n THEN <<>>
    ELSE ReadLayout(ReadName(n + 1 - k), IF k = at THEN sh ELSE DefaultShape)
         \o ReadsLayout(k + 1, n, at, sh)

RECURSIVE IndexLayout(_, _, _, _, _)
IndexLayout(k, n, at, sh, hlen) ==
    IF k < 1 THEN <<>>
    ELSE ReadName(n + 1 - k) \o <<0>>
         \o Base255(hlen + Len(ReadsLayout(1, k - 1, at, sh)))
         \o <<255>> \o IndexLayout(k - 1, n, at, sh, hlen)

FileLayout(n, at, sh, indexed) ==
    LET hsize == 31 + Len(FlowChars) + Len(KeySequence)
        hlen == RoundUp8(hsize)
        reads == ReadsLayout(1, n, at, sh)
        ilen == 16 + Len(OrigXml) + 20 * n
        index == PackBE(IndexMagic, 4) \o <<49, 46, 48, 48>>
                 \o PackBE(Len(OrigXml), 4) \o PackBE(20 * n, 4) \o OrigXml
                 \o IndexLayout(n, n, at, sh, hlen) \o Zeros(RoundUp8(ilen) - ilen)
    IN  PackBE(SffMagic, 4) \o <<0, 0, 0, 1>>
        \o PackBE(IF indexed THEN hlen + Len(reads) ELSE 0, 8)
        \o PackBE(IF indexed THEN ilen ELSE 0, 4)
        \o PackBE(n, 4) \o PackBE(hlen, 2) \o PackBE(Len(KeySequence), 2)
        \o PackBE(Len(FlowChars), 2) \o <<1>> \o FlowChars \o KeySequence
        \o Zeros(hlen - hsize) \o reads \o (IF indexed THEN index ELSE <<>>)

SffInputs ==
    {FileLayout(n, at, sh, indexed) :
        n \in 1..MaxReads, at \in 1..MaxReads, sh \in ReadShapes, indexed \in BOOLEAN}

------------------------------------------------------------------------------
(* The codec scenario: SffIterator over an input file with trim=False and  *)
(* with trim=True, then SffWriter.write_file of the untrimmed records.     *)

NoWriter == NewWriter(FALSE, FALSE, <<>>)
NoDb == [exists |-> FALSE, rows |-> <<>>, unique |-> FALSE]
NoGot == [key |-> <<>>, err |-> "none", id |-> <<>>, before |-> "none"]
NoCall == [op |-> "none", key |-> <<>>, err |-> "none", raw |-> <<>>, val |-> {}]

\* No function is under test.
NoArg == [kind |-> "none"]
NoRet == [err |-> "none"]
FnIdle == arg = NoArg /\ ret = NoRet

\* No facade is in play.
IndexIdle ==
    /\ fmt = "sff"
    /\ key_function = "none"
    /\ backend = "memory"
    /\ handle = <<>>
    /\ offsets = {}
    /\ db = NoDb
    /\ pending = <<>>
    /\ scan = [pairs |-> <<>>, err |-> "none"]
    /\ recorded = <<>>
    /\ got = NoGot
    /\ hpos = 0
    /\ call = NoCall
    /\ mode = "none"

InitSff ==
    /\ src \in SffInputs
    /\ pc = "sff_start"
    /\ hdr = NoHeader("none")
    /\ rpos = 0
    /\ recs = <<>>
    /\ recsT = <<>>
    /\ stored = <<>>
    /\ out = NoHandle
    /\ w = NoWriter
    /\ todo = <<>>
    /\ wlog = <<>>
    /\ err = "none"
    /\ IndexIdle
    /\ FnIdle

\* SffIterator up to its loop: the file header.
SffOpen ==
    /\ pc = "sff_start"
    /\ \E h \in {SffFileHeader(src, 0)} :
           /\ hdr' = h
           /\ rpos' = h.pos
           /\ err' = h.err
           /\ pc' = IF h.err = "none" THEN "sff_reading" ELSE "sff_failed"
    /\ UNCHANGED <<src, recs, recsT, stored, out, w, todo, wlog>>
    /\ UNCHANGED <<indexvars, fnvars>>

\* One turn of SffIterator's loop, for the trim=False and the trim=True
\* iterator alike (both are at the same read).
SffNext ==
    /\ pc = "sff_reading"
    /\ Len(recs) < hdr.number_of_reads
    /\ \E r \in {SffReadSeqRecord(src, rpos, hdr.number_of_flows_per_read,
                                  hdr.flow_chars, hdr.key_sequence, FALSE)} :
       \E rT \in {SffReadSeqRecord(src, rpos, hdr.number_of_flows_per_read,
                                   hdr.flow_chars, hdr.key_sequence, TRUE)} :
           IF r.err # "none"
           THEN /\ err' = r.err
                /\ pc' = "sff_failed"
                /\ UNCHANGED <<rpos, recs, recsT, stored>>
           ELSE /\ recs' = Append(recs, r.rec)
                /\ recsT' = Append(recsT, rT.rec)
                /\ stored' = Append(stored, ReadHeaderFields(Read(src, rpos, 16)))
                /\ rpos' = r.pos
                /\ UNCHANGED <<pc, err>>
    /\ UNCHANGED <<src, hdr, out, w, todo, wlog>>
    /\ UNCHANGED <<indexvars, fnvars>>

\* write_file up to and including the first record. as_list: the records are
\* given as a list (len() works) rather than as an iterator. The writer gets
\* the XML of the input's index, and index=False when the input has none.
WriteFirst(as_list) ==
    /\ pc = "sff_reading"
    /\ Len(recs) = hdr.number_of_reads
    /\ \E x \in {SffReadRocheIndexXml(src)} :
       \E w1 \in {[NewWriter(x.err = "none", x.err = "none", x.xml)
                      EXCEPT !.number_of_reads = IF as_list THEN Len(recs) ELSE 0]} :
           IF recs = <<>>
           THEN /\ err' = "ValueError"
                /\ pc' = "sff_failed"
                /\ w' = w1
                /\ UNCHANGED <<out, todo, wlog>>
           ELSE IF ~({"flow_key", "flow_chars"} \subseteq recs[1].ann)
           THEN /\ err' = "ValueError"
                /\ pc' = "sff_failed"
                /\ w' = w1
                /\ UNCHANGED <<out, todo, wlog>>
           ELSE
           \E w2 \in {[w1 EXCEPT !.has_flow = TRUE,
                                 !.key_sequence = recs[1].flow_key,
                                 !.flow_chars = recs[1].flow_chars,
                                 !.number_of_flows_per_read = Len(recs[1].flow_chars)]} :
           \E h1 \in {WriteHeader(w2, NoHandle)} :
           \E r \in {WriteRecord(w2, h1, recs[1])} :
               /\ w' = r.w
               /\ out' = r.h
               /\ err' = r.err
               /\ wlog' = <<h1.pos>>
               /\ todo' = Tail(recs)
               /\ pc' = IF r.err = "none" THEN "sff_writing" ELSE "sff_failed"
    /\ UNCHANGED <<src, hdr, rpos, recs, recsT, stored>>
    /\ UNCHANGED <<indexvars, fnvars>>

\* One turn of write_file's loop over the remaining records.
WriteNext ==
    /\ pc = "sff_writing"
    /\ todo # <<>>
    /\ \E r \in {WriteRecord(w, out, todo[1])} :
           /\ w' = r.w
           /\ out' = r.h
           /\ err' = r.err
           /\ wlog' = Append(wlog, out.pos)
           /\ todo' = Tail(todo)
           /\ pc' = IF r.err = "none" THEN "sff_writing" ELSE "sff_failed"
    /\ UNCHANGED <<src, hdr, rpos, recs, recsT, stored>>
    /\ UNCHANGED <<indexvars, fnvars>>

\* write_file after its loop: the record count goes into the header.
WritePatch ==
    /\ pc = "sff_writing"
    /\ todo = <<>>
    /\ \E r \in {PatchCount(w, out, Len(wlog))} :
           /\ w' = r.w
           /\ out' = r.h
           /\ err' = r.err
           /\ pc' = IF r.err = "none" THEN "sff_index" ELSE "sff_failed"
    /\ UNCHANGED <<src, hdr, rpos, recs, recsT, stored, todo, wlog>>
    /\ UNCHANGED <<indexvars, fnvars>>

\* write_file's end: the index block, when one is to be written.
WriteFinish ==
    /\ pc = "sff_index"
    /\ IF w.index_on
       THEN \E r \in {WriteIndex(w, out)} :
                /\ w' = r.w
                /\ out' = r.h
                /\ err' = r.err
                /\ pc' = IF r.err = "none" THEN "sff_done" ELSE "sff_failed"
       ELSE /\ pc' = "sff_done"
            /\ UNCHANGED <<w, out, err>>
    /\ UNCHANGED <<src, hdr, rpos, recs, recsT, stored, todo, wlog>>
    /\ UNCHANGED <<indexvars, fnvars>>

NextSff ==
    \/ SffOpen
    \/ SffNext
    \/ \E as_list \in BOOLEAN : WriteFirst(as_list)
    \/ WriteNext
    \/ WritePatch
    \/ WriteFinish

SpecSff == InitSff /\ [][NextSff]_vars

------------------------------------------------------------------------------
(* Text files: characters are their ASCII codes; a format's fixed keyword  *)
(* with its trailing blank ("LOCUS ", "VERSION ", ...) is one symbol.      *)

NL == 10
TAB == 9
SP == 32
DOT == 46
SLASH == 47
SEMI == 59
GT == 62
AT == 64
PLUS == 43
KwLOCUS == 300
KwACCESSION == 301
KwVERSION == 302
KwFEATURES == 303
KwORIGIN == 304
KwID == 305
KwSV == 306
KwAC == 307
KwFH == 308
KwFT == 309
KwSQ == 310

Keywords == {KwLOCUS, KwACCESSION, KwVERSION, KwFEATURES, KwORIGIN, KwID,
             KwSV, KwAC, KwFH, KwFT, KwSQ}
IsSpace(c) == c \in {SP, TAB, NL, 13}
IsDigit(c) == c >= 48 /\ c <= 57

\* handle.readline() at position pos: up to and including the next newline,
\* or to the end of the file; empty at the end of the file.
ReadLine(data, pos) ==
    IF pos >= Len(data) THEN <<>>
    ELSE IF \E j \in (pos + 1)..Len(data) : data[j] = NL
    THEN SubSeq(data, pos + 1,
                CHOOSE j \in (pos + 1)..Len(data) :
                    /\ data[j] = NL
                    /\ \A k \in (pos + 1)..(j - 1) : data[k] # NL)
    ELSE SubSeq(data, pos + 1, Len(data))

\* line.startswith(<symbol>)
StartsWith(line, c) == line # <<>> /\ line[1] = c
\* line.startswith(<two characters>)
StartsWithBoth(line, c, d) == Len(line) >= 2 /\ line[1] = c /\ line[2] = d

RECURSIVE LStrip(_)
LStrip(s) == IF s # <<>> /\ IsSpace(s[1]) THEN LStrip(Tail(s)) ELSE s
RECURSIVE RStrip(_)
RStrip(s) ==
    IF s # <<>> /\ IsSpace(s[Len(s)]) THEN RStrip(SubSeq(s, 1, Len(s) - 1)) ELSE s
Strip(s) == LStrip(RStrip(s))

\* s.split(): the whitespace separated words; a keyword symbol is a word
\* followed by a blank.
RECURSIVE SplitWords(_, _)
SplitWords(s, word) ==
    IF s = <<>> THEN (IF word = <<>> THEN <<>> ELSE <<word>>)
    ELSE IF IsSpace(s[1])
        THEN (IF word = <<>> THEN <<>> ELSE <<word>>) \o SplitWords(Tail(s), <<>>)
    ELSE IF s[1] \in Keywords
        THEN <<Append(word, s[1])>> \o SplitWords(Tail(s), <<>>)
    ELSE SplitWords(Tail(s), Append(word, s[1]))
Words(s) == SplitWords(s, <<>>)

\* s.split(c): the fields between the occurrences of character c.
RECURSIVE SplitOnFrom(_, _, _)
SplitOnFrom(s, c, field) ==
    IF s = <<>> THEN <<field>>
    ELSE IF s[1] = c THEN <<field>> \o SplitOnFrom(Tail(s), c, <<>>)
    ELSE SplitOnFrom(Tail(s), c, Append(field, s[1]))
SplitOn(s, c) == SplitOnFrom(s, c, <<>>)

\* s.count(c)
Count(s, c) == Cardinality({i \in DOMAIN s : s[i] = c})

\* What a scanner generator yields before it ends: pairs, then the
\* exception it raises ("none": it ends normally).
\* A scanner that takes the offset after it has read the record's first
\* character.
YieldNextOffset(pair, rest) ==
    [pairs |-> <<<<pair[1], pair[2] + 1>>>> \o rest.pairs, err |-> rest.err]
Yield(pair, rest) == [pairs |-> <<pair>> \o rest.pairs, err |-> rest.err]
Stop(kind) == [pairs |-> <<>>, err |-> kind]

------------------------------------------------------------------------------
(* The scanners of _index.py: each _build as the sequence of                *)
(* _record_key(identifier, offset) calls it makes.                         *)

\* SequentialSeqFileDict._build from position pos.
RECURSIVE SequentialBuild(_, _, _)
SequentialBuild(data, pos, marker) ==
    IF ReadLine(data, pos) = <<>> THEN Stop("none")
    ELSE IF StartsWith(ReadLine(data, pos), marker)
    THEN IF Words(Tail(ReadLine(data, pos))) = <<>> THEN Stop("IndexError")
         ELSE Yield(<<Words(Tail(ReadLine(data, pos)))[1], pos>>,
                    SequentialBuild(data, pos + Len(ReadLine(data, pos)), marker))
    ELSE SequentialBuild(data, pos + Len(ReadLine(data, pos)), marker)

\* "version_id.count(".")==1 and version_id.split(".")[1].isdigit()"
ValidVersion(version_id) ==
    /\ Count(version_id, DOT) = 1
    /\ SplitOn(version_id, DOT)[2] # <<>>
    /\ \A i \in DOMAIN SplitOn(version_id, DOT)[2] :
           IsDigit(SplitOn(version_id, DOT)[2][i])

\* GenBankDict._build, the inner loop from position pos with the key found
\* so far (<<>>: None): [err, key, pos] when the loop is left.
RECURSIVE GenBankKey(_, _, _)
GenBankKey(data, pos, key) ==
    IF StartsWith(ReadLine(data, pos), KwACCESSION)
    THEN IF Len(Words(RStrip(ReadLine(data, pos)))) < 2
         THEN [err |-> "IndexError", key |-> key, pos |-> pos]
         ELSE GenBankKey(data, pos + Len(ReadLine(data, pos)),
                         Words(RStrip(ReadLine(data, pos)))[2])
    ELSE IF StartsWith(ReadLine(data, pos), KwVERSION)
    THEN IF Len(Words(RStrip(ReadLine(data, pos)))) < 2
         THEN [err |-> "IndexError", key |-> key, pos |-> pos]
         ELSE IF ValidVersion(Words(RStrip(ReadLine(data, pos)))[2])
         THEN [err |-> "none", key |-> Words(RStrip(ReadLine(data, pos)))[2],
               pos |-> pos + Len(ReadLine(data, pos))]
         ELSE GenBankKey(data, pos + Len(ReadLine(data, pos)), key)
    ELSE IF \/ StartsWith(ReadLine(data, pos), KwFEATURES)
            \/ StartsWith(ReadLine(data, pos), KwORIGIN)
            \/ StartsWithBoth(ReadLine(data, pos), SLASH, SLASH)
            \/ StartsWith(ReadLine(data, pos), KwLOCUS)
            \/ ReadLine(data, pos) = <<>>
    THEN [err |-> "none", key |-> key, pos |-> pos + Len(ReadLine(data, pos))]
    ELSE GenBankKey(data, pos + Len(ReadLine(data, pos)), key)

\* GenBankDict._build from position pos.
RECURSIVE GenBankBuild(_, _)
GenBankBuild(data, pos) ==
    IF ReadLine(data, pos) = <<>> THEN Stop("none")
    ELSE IF StartsWith(ReadLine(data, pos), KwLOCUS)
    THEN IF GenBankKey(data, pos + Len(ReadLine(data, pos)), <<>>).err # "none"
         THEN Stop(GenBankKey(data, pos + Len(ReadLine(data, pos)), <<>>).err)
         ELSE IF GenBankKey(data, pos + Len(ReadLine(data, pos)), <<>>).key = <<>>
         THEN Stop("ValueError")
         ELSE Yield(<<GenBankKey(data, pos + Len(ReadLine(data, pos)), <<>>).key, pos>>,
                    GenBankBuild(data,
                        GenBankKey(data, pos + Len(ReadLine(data, pos)), <<>>).pos))
    ELSE GenBankBuild(data, pos + Len(ReadLine(data, pos)))

\* EmblDict._build, the key taken from the ID line: [err, key].
EmblIdLineKey(line) ==
    IF Count(line, SEMI) = 6
    THEN IF StartsWith(Strip(SplitOn(RStrip(Tail(line)), SEMI)[2]), KwSV)
         THEN IF Len(Words(Strip(SplitOn(RStrip(Tail(line)), SEMI)[2]))) < 2
              THEN [err |-> "IndexError", key |-> <<>>]
              ELSE [err |-> "none",
                    key |-> Strip(SplitOn(RStrip(Tail(line)), SEMI)[1]) \o <<DOT>>
                            \o Words(Strip(SplitOn(RStrip(Tail(line)), SEMI)[2]))[2]]
         ELSE [err |-> "none", key |-> Strip(SplitOn(RStrip(Tail(line)), SEMI)[1])]
    ELSE IF Count(line, SEMI) = 3
    THEN IF Words(Tail(line)) = <<>>
         THEN [err |-> "IndexError", key |-> <<>>]
         ELSE [err |-> "none", key |-> Words(Tail(line))[1]]
    ELSE [err |-> "ValueError", key |-> <<>>]

\* EmblDict._build, the loop after the ID line: [err, key, pos].
RECURSIVE EmblKey(_, _, _)
EmblKey(data, pos, key) ==
    IF StartsWith(ReadLine(data, pos), KwSV)
    THEN IF Len(Words(RStrip(ReadLine(data, pos)))) < 2
         THEN [err |-> "IndexError", key |-> key, pos |-> pos]
         ELSE [err |-> "none", key |-> Words(RStrip(ReadLine(data, pos)))[2],
               pos |-> pos + Len(ReadLine(data, pos))]
    ELSE IF \/ StartsWith(ReadLine(data, pos), KwFH)
            \/ StartsWith(ReadLine(data, pos), KwFT)
            \/ StartsWith(ReadLine(data, pos), KwSQ)
            \/ StartsWithBoth(ReadLine(data, pos), SLASH, SLASH)
            \/ StartsWith(ReadLine(data, pos), KwID)
            \/ ReadLine(data, pos) = <<>>
    THEN [err |-> "none", key |-> key, pos |-> pos + Len(ReadLine(data, pos))]
    ELSE EmblKey(data, pos + Len(ReadLine(data, pos)), key)

\* EmblDict._build from position pos.
RECURSIVE EmblBuild(_, _)
EmblRecord(data, pos, idkey, found) ==
    IF idkey.err # "none" THEN Stop(idkey.err)
    ELSE IF found.err # "none" THEN Stop(found.err)
    ELSE Yield(<<found.key, pos>>, EmblBuild(data, found.pos))
EmblBuild(data, pos) ==
    IF ReadLine(data, pos) = <<>> THEN Stop("none")
    ELSE IF StartsWith(ReadLine(data, pos), KwID)
    THEN EmblRecord(data, pos, EmblIdLineKey(ReadLine(data, pos)),
                    EmblKey(data, pos + Len(ReadLine(data, pos)),
                            EmblIdLineKey(ReadLine(data, pos)).key))
    ELSE EmblBuild(data, pos + Len(ReadLine(data, pos)))

\* SwissDict._build from position pos.
RECURSIVE SwissBuild(_, _)
SwissRecord(data, pos, acpos, line) ==
    IF ~StartsWith(line, KwAC) THEN Stop("AssertionError")
    ELSE Yield(<<Strip(SplitOn(Strip(Tail(line)), SEMI)[1]), pos>>,
               SwissBuild(data, acpos + Len(line)))
SwissBuild(data, pos) ==
    IF ReadLine(data, pos) = <<>> THEN Stop("none")
    ELSE IF StartsWith(ReadLine(data, pos), KwID)
    THEN SwissRecord(data, pos, pos + Len(ReadLine(data, pos)),
                     ReadLine(data, pos + Len(ReadLine(data, pos))))
    ELSE SwissBuild(data, pos + Len(ReadLine(data, pos)))

\* IntelliGeneticsDict._build, the loop after the first ";" line:
\* [err, key, pos].
RECURSIVE IntelliGeneticsKey(_, _)
IntelliGeneticsKey(data, pos) ==
    IF ReadLine(data, pos) = <<>>
    THEN [err |-> "ValueError", key |-> <<>>, pos |-> pos]
    ELSE IF ReadLine(data, pos)[1] # SEMI /\ Strip(ReadLine(data, pos)) # <<>>
    THEN [err |-> "none", key |-> Words(ReadLine(data, pos))[1],
          pos |-> pos + Len(ReadLine(data, pos))]
    ELSE IntelliGeneticsKey(data, pos + Len(ReadLine(data, pos)))

\* IntelliGeneticsDict._build from position pos.
RECURSIVE IntelliGeneticsBuild(_, _)
IntelliGeneticsRecord(data, pos, found) ==
    IF found.err # "none" THEN Stop(found.err)
    ELSE Yield(<<found.key, pos>>, IntelliGeneticsBuild(data, found.pos))
IntelliGeneticsBuild(data, pos) ==
    IF ReadLine(data, pos) = <<>> THEN Stop("none")
    ELSE IF StartsWith(ReadLine(data, pos), SEMI)
    THEN IntelliGeneticsRecord(data, pos,
             IntelliGeneticsKey(data, pos + Len(ReadLine(data, pos))))
    ELSE IntelliGeneticsBuild(data, pos + Len(ReadLine(data, pos)))

\* TabDict._build from position pos.
RECURSIVE TabBuild(_, _)
TabBuild(data, pos) ==
    IF ReadLine(data, pos) = <<>> THEN Stop("none")
    ELSE Yield(<<SplitOn(ReadLine(data, pos), TAB)[1], pos>>,
               TabBuild(data, pos + Len(ReadLine(data, pos))))

\* FastqDict._build, the sequence lines up to the "+" line:
\* [eof, pos, seq_len].
RECURSIVE FastqSeqLines(_, _, _)
FastqSeqLines(data, pos, seq_len) ==
    IF ReadLine(data, pos) = <<>>
    THEN [eof |-> TRUE, pos |-> pos, seq_len |-> seq_len]
    ELSE IF StartsWith(ReadLine(data, pos), PLUS)
    THEN [eof |-> FALSE, pos |-> pos + Len(ReadLine(data, pos)), seq_len |-> seq_len]
    ELSE FastqSeqLines(data, pos + Len(ReadLine(data, pos)),
                       seq_len + Len(Strip(ReadLine(data, pos))))

\* FastqDict._build, the quality lines: [ok, pos] with pos where the next
\* record is taken to start.
RECURSIVE FastqQualLines(_, _, _, _)
FastqQualLines(data, pos, seq_len, qual_len) ==
    IF seq_len = qual_len THEN [ok |-> TRUE, pos |-> pos]
    ELSE IF ReadLine(data, pos) = <<>> THEN [ok |-> FALSE, pos |-> pos]
    ELSE FastqQualLines(data, pos + Len(ReadLine(data, pos)), seq_len,
                        qual_len + Len(Strip(ReadLine(data, pos))))

\* FastqDict._build, the record loop with the "@" line at position pos.
RECURSIVE FastqRecords(_, _)
FastqAfterQuals(data, quals) ==
    IF ~quals.ok THEN Stop("ValueError")
    ELSE IF ReadLine(data, quals.pos) = <<>> THEN Stop("none")
    ELSE FastqRecords(data, quals.pos)
FastqAfterSeq(data, seqs) ==
    IF seqs.eof THEN Stop("ValueError")
    ELSE FastqAfterQuals(data, FastqQualLines(data, seqs.pos, seqs.seq_len, 0))
FastqRecords(data, pos) ==
    IF Words(RStrip(Tail(ReadLine(data, pos)))) = <<>> THEN Stop("IndexError")
    ELSE Yield(<<Words(RStrip(Tail(ReadLine(data, pos))))[1], pos>>,
               FastqAfterSeq(data,
                   FastqSeqLines(data, pos + Len(ReadLine(data, pos)), 0)))

\* FastqDict._build
FastqBuild(data) ==
    IF ReadLine(data, 0) = <<>> THEN Stop("none")
    ELSE IF ReadLine(data, 0)[1] # AT THEN Stop("ValueError")
    ELSE FastqRecords(data, 0)

------------------------------------------------------------------------------
(* The SFF scanners of SffIO.py, as the pairs they yield and the exception  *)
(* that ends them.                                                         *)

\* _sff_read_roche_index, its loop from entry number read (0 based).
RECURSIVE RocheIndexEntries(_, _, _)
RocheIndexEntry(data, f, read, raw, offset) ==
    IF Len(raw) < 20 THEN Stop("struct.error")
    ELSE IF raw[15] # 0 THEN Stop("ValueError")
    ELSE IF raw[20] # 255 THEN Stop("ValueError")
    ELSE IF ~(f.header_length <= offset /\ offset <= f.index_offset)
    THEN Stop("AssertionError")
    ELSE Yield(<<SubSeq(raw, 1, 14), offset>>, RocheIndexEntries(data, f, read + 1))
RocheIndexEntries(data, f, read) ==
    IF read >= f.number_of_reads THEN Stop("none")
    ELSE RocheIndexEntry(data, f, read,
             Read(data, f.read_index_offset + 20 * read, 20),
             IF Len(Read(data, f.read_index_offset + 20 * read, 20)) < 20 THEN 0
             ELSE DecodeOffset(SubSeq(Read(data, f.read_index_offset + 20 * read, 20),
                                      16, 19)))

SffReadRocheIndexFrom(data, f) ==
    IF f.err # "none" THEN Stop(f.err) ELSE RocheIndexEntries(data, f, 0)
SffReadRocheIndex(data) == SffReadRocheIndexFrom(data, SffFindRocheIndex(data))

\* _sff_do_slow_index, its loop from read number read (0 based) at position
\* pos.
RECURSIVE SlowIndexReads(_, _, _, _)
\* A scan that skips the flows, bases and qualities but not the padding
\* after them.
SlowIndexBodyUnpadded(data, h, read, pos, name, read_header_length, size) ==
    Yield(<<name, pos>>, SlowIndexReads(data, h, read + 1, pos + read_header_length + size))
SlowIndexBody(data, h, read, pos, name, read_header_length, size) ==
    IF size % 8 # 0
       /\ Zeros(8 - (size % 8))
          # Read(data, pos + read_header_length + size, 8 - (size % 8))
    THEN Stop("ValueError")
    ELSE Yield(<<name, pos>>,
               SlowIndexReads(data, h, read + 1,
                              pos + read_header_length + RoundUp8(size)))
SlowIndexName(data, h, read, pos, raw, read_header_length, name, padding) ==
    IF read_header_length < 10 \/ read_header_length % 8 # 0 THEN Stop("ValueError")
    ELSE IF Zeros(padding) # Read(data, pos + 16 + Len(name), padding)
    THEN Stop("ValueError")
    ELSE IF pos + read_header_length
            # pos + 16 + Len(name) + Len(Read(data, pos + 16 + Len(name), padding))
    THEN Stop("AssertionError")
    ELSE SlowIndexBody(data, h, read, pos, name, read_header_length,
                       2 * h.number_of_flows_per_read + 3 * UnpackBE(SubSeq(raw, 5, 8)))
SlowIndexRead(data, h, read, pos, raw) ==
    IF Len(raw) < 16 THEN Stop("struct.error")
    ELSE SlowIndexName(data, h, read, pos, raw, UnpackBE(SubSeq(raw, 1, 2)),
                       Read(data, pos + 16, UnpackBE(SubSeq(raw, 3, 4))),
                       UnpackBE(SubSeq(raw, 1, 2)) - 16 - UnpackBE(SubSeq(raw, 3, 4)))
SlowIndexReads(data, h, read, pos) ==
    IF read >= h.number_of_reads
    THEN (IF pos % 8 # 0 THEN Stop("ValueError") ELSE Stop("none"))
    ELSE SlowIndexRead(data, h, read, pos, Read(data, pos, 16))

SffDoSlowIndexFrom(data, h) ==
    IF h.err # "none" THEN Stop(h.err) ELSE SlowIndexReads(data, h, 0, h.pos)
SffDoSlowIndex(data) == SffDoSlowIndexFrom(data, SffFileHeader(data, 0))

------------------------------------------------------------------------------
(* SeqIO.parse(handle, format).next() for the text formats, as far as the   *)
(* facade uses it: the id of the one record that starts at an offset. The  *)
(* parsers are other modules of the package; this is their documented      *)
(* behaviour on a record of the format, stated on the record's lines.      *)

\* The lines of the record after its first line, up to and including the
\* "//" line; without a "//" line when the file or the record ends before.
RECURSIVE RecordLines(_, _, _)
RecordLines(data, pos, marker) ==
    IF ReadLine(data, pos) = <<>> \/ StartsWith(ReadLine(data, pos), marker) THEN <<>>
    ELSE IF StartsWithBoth(ReadLine(data, pos), SLASH, SLASH)
    THEN <<ReadLine(data, pos)>>
    ELSE <<ReadLine(data, pos)>>
         \o RecordLines(data, pos + Len(ReadLine(data, pos)), marker)

Terminated(lines) ==
    lines # <<>> /\ SubSeq(lines[Len(lines)], 1, 2) = <<SLASH, SLASH>>

IsVersionLine(l) ==
    StartsWith(l, KwVERSION) /\ Len(Words(l)) >= 2 /\ ValidVersion(Words(l)[2])
IsAccessionLine(l) == StartsWith(l, KwACCESSION) /\ Len(Words(l)) >= 2
IsSVLine(l) == StartsWith(l, KwSV) /\ Len(Words(l)) >= 2
IsACLine(l) == StartsWith(l, KwAC)
IsTitleLine(l) == l[1] # SEMI /\ Strip(l) # <<>>

Parsed(id) == [err |-> "none", id |-> id]
NotParsed(kind) == [err |-> kind, id |-> <<>>]

GenBankId(first, lines) ==
    IF ~Terminated(lines) THEN NotParsed("ValueError")
    ELSE IF SelectSeq(lines, IsVersionLine) # <<>>
    THEN Parsed(Words(SelectSeq(lines, IsVersionLine)[1])[2])
    ELSE IF SelectSeq(lines, IsAccessionLine) # <<>>
    THEN Parsed(Words(SelectSeq(lines, IsAccessionLine)[1])[2])
    ELSE Parsed(Words(first)[2])

EmblId(first, lines) ==
    IF ~Terminated(lines) THEN NotParsed("ValueError")
    ELSE IF SelectSeq(lines, IsSVLine) # <<>>
    THEN Parsed(Words(SelectSeq(lines, IsSVLine)[1])[2])
    ELSE IF Count(first, SEMI) = 6
            /\ StartsWith(Strip(SplitOn(Tail(first), SEMI)[2]), KwSV)
    THEN Parsed(Strip(SplitOn(Tail(first), SEMI)[1]) \o <<DOT>>
                \o Words(SplitOn(Tail(first), SEMI)[2])[2])
    ELSE Parsed(Words(SplitOn(Tail(first), SEMI)[1])[1])

SwissId(first, lines) ==
    IF ~Terminated(lines) THEN NotParsed("ValueError")
    ELSE IF SelectSeq(lines, IsACLine) = <<>> THEN NotParsed("ValueError")
    ELSE Parsed(Strip(SplitOn(Tail(SelectSeq(lines, IsACLine)[1]), SEMI)[1]))

IntelliGeneticsId(lines) ==
    IF SelectSeq(lines, IsTitleLine) = <<>> THEN NotParsed("ValueError")
    ELSE Parsed(Words(SelectSeq(lines, IsTitleLine)[1])[1])

\* The lines from position pos to the end of the file.
RECURSIVE LinesFrom(_, _)
LinesFrom(data, pos) ==
    IF ReadLine(data, pos) = <<>> THEN <<>>
    ELSE <<ReadLine(data, pos)>> \o LinesFrom(data, pos + Len(ReadLine(data, pos)))

\* A FASTQ record needs its "+" line and as many quality characters as
\* sequence characters.
FastqId(first, seqs, rest) ==
    IF ~seqs.eof /\ FastqQualLines(rest, 0, seqs.seq_len, 0).ok
    THEN Parsed(IF Words(Tail(first)) = <<>> THEN <<>> ELSE Words(Tail(first))[1])
    ELSE NotParsed("ValueError")

RecordIdAt(format, data, offset) ==
    IF ReadLine(data, offset) = <<>> THEN NotParsed("StopIteration")
    ELSE IF format = "fasta"
    THEN IF ~StartsWith(ReadLine(data, offset), GT) THEN NotParsed("StopIteration")
         ELSE Parsed(IF Words(Tail(ReadLine(data, offset))) = <<>> THEN <<>>
                     ELSE Words(Tail(ReadLine(data, offset)))[1])
    ELSE IF format = "genbank"
    THEN IF ~StartsWith(ReadLine(data, offset), KwLOCUS) \/ Len(Words(ReadLine(data, offset))) < 2
         THEN NotParsed("ValueError")
         ELSE GenBankId(ReadLine(data, offset),
                        RecordLines(data, offset + Len(ReadLine(data, offset)), KwLOCUS))
    ELSE IF format = "embl"
    THEN IF ~StartsWith(ReadLine(data, offset), KwID) \/ Len(Words(ReadLine(data, offset))) < 2
         THEN NotParsed("ValueError")
         ELSE EmblId(ReadLine(data, offset),
                     RecordLines(data, offset + Len(ReadLine(data, offset)), KwID))
    ELSE IF format = "swiss"
    THEN IF ~StartsWith(ReadLine(data, offset), KwID) THEN NotParsed("ValueError")
         ELSE SwissId(ReadLine(data, offset),
                      RecordLines(data, offset + Len(ReadLine(data, offset)), KwID))
    ELSE IF format = "ig"
    THEN IF ~StartsWith(ReadLine(data, offset), SEMI) THEN NotParsed("ValueError")
         ELSE IntelliGeneticsId(LinesFrom(data, offset))
    ELSE IF format = "tab"
    THEN IF Count(ReadLine(data, offset), TAB) # 1 THEN NotParsed("ValueError")
         ELSE Parsed(SplitOn(ReadLine(data, offset), TAB)[1])
    ELSE IF ~StartsWith(ReadLine(data, offset), AT) THEN NotParsed("ValueError")
         ELSE FastqId(ReadLine(data, offset),
                      FastqSeqLines(data, offset + Len(ReadLine(data, offset)), 0),
                      SubSeq(data,
                             FastqSeqLines(data, offset + Len(ReadLine(data, offset)), 0).pos + 1,
                             Len(data)))

------------------------------------------------------------------------------
(* The indexed files: well-formed text files of each format, made of       *)
(* records with given ids, and SFF files with a sound or a damaged index.  *)

MaxRecords == 3
BatchSize == 2      \* stands for the 10000 of _SqliteOffsetDict.__setitem__

TextFormats == {"fasta", "genbank", "embl", "swiss", "ig", "tab", "fastq"}
SffFormats == {"sff", "sff-trim"}

\* The record ids "a", "b", "c".
Ids == {<<97>>, <<98>>, <<99>>}

\* One well-formed record with the given id, in one of two layouts.
TextRecord(format, id, style) ==
    IF format = "fasta"
    THEN IF style = 0 THEN <<GT>> \o id \o <<NL, 65, 67, NL>>
         ELSE <<GT>> \o id \o <<SP, 100, NL, 65, NL, 67, NL>>
    ELSE IF format = "genbank"
    THEN IF style = 0
         THEN <<KwLOCUS, 120, NL, KwACCESSION>> \o id \o <<NL, KwVERSION>> \o id
              \o <<DOT, 49, NL, KwFEATURES, NL, KwORIGIN, NL, SLASH, SLASH, NL>>
         ELSE <<KwLOCUS, 120, NL, KwACCESSION>> \o id
              \o <<NL, KwORIGIN, NL, SLASH, SLASH, NL>>
    ELSE IF format = "embl"
    THEN IF style = 0
         THEN <<KwID>> \o id \o <<SEMI, SP, KwSV, 49, SEMI, SEMI, SEMI, SEMI, SEMI, NL,
                                  KwSQ, NL, SLASH, SLASH, NL>>
         ELSE <<KwID, 120, SP, SEMI, SEMI, SEMI, NL, KwSV>> \o id
              \o <<DOT, 49, NL, KwSQ, NL, SLASH, SLASH, NL>>
    ELSE IF format = "swiss"
    THEN IF style = 0
         THEN <<KwID, 120, NL, KwAC>> \o id \o <<SEMI, NL, KwSQ, NL, SLASH, SLASH, NL>>
         ELSE <<KwID, 120, NL, KwAC>> \o id
              \o <<SEMI, SP, 122, SEMI, NL, KwSQ, NL, SLASH, SLASH, NL>>
    ELSE IF format = "ig"
    THEN IF style = 0 THEN <<SEMI, 100, NL>> \o id \o <<NL, 65, 67, 49, NL>>
         ELSE <<SEMI, 100, NL, SEMI, NL>> \o id \o <<SP, 100, NL, 65, NL, 67, 49, NL>>
    ELSE IF format = "tab"
    THEN IF style = 0 THEN id \o <<TAB, 65, 67, NL>>
         ELSE id \o <<TAB, 65, NL>>
    ELSE IF style = 0 THEN <<AT>> \o id \o <<NL, 65, 67, NL, PLUS, NL, 73, 73, NL>>
         ELSE <<AT>> \o id \o <<SP, 100, NL, 65, NL, 67, NL, PLUS>> \o id
              \o <<NL, AT, 73, NL>>

RECURSIVE TextFile(_, _, _)
TextFile(format, ids, style) ==
    IF ids = <<>> THEN <<>>
    ELSE TextRecord(format, ids[1], style) \o TextFile(format, Tail(ids), style)

IdLists == UNION {[1..n -> Ids] : n \in 1..MaxRecords}

TextInputs ==
    {[format |-> f, data |-> TextFile(f, ids, style)] :
        f \in TextFormats, ids \in IdLists, style \in {0, 1}}

\* The reads named ReadName(names[1]), ReadName(names[2]), ... one after the
\* other, and their index entries with the first read at position at.
RECURSIVE NamedReads(_)
NamedReads(names) ==
    IF names = <<>> THEN <<>>
    ELSE ReadLayout(ReadName(names[1]), DefaultShape) \o NamedReads(Tail(names))

RECURSIVE NamedEntries(_, _)
NamedEntries(names, at) ==
    IF names = <<>> THEN <<>>
    ELSE ReadName(names[1]) \o <<0>> \o Base255(at) \o <<255>>
         \o NamedEntries(Tail(names),
                         at + Len(ReadLayout(ReadName(names[1]), DefaultShape)))

SffHeaderSize == RoundUp8(31 + Len(FlowChars) + Len(KeySequence))

\* The SFF file of the reads so named, with a Roche index block after the
\* reads when indexed.
NamedFile(names, indexed) ==
    PackBE(SffMagic, 4) \o <<0, 0, 0, 1>>
    \o PackBE(IF indexed THEN SffHeaderSize + Len(NamedReads(names)) ELSE 0, 8)
    \o PackBE(IF indexed THEN 16 + Len(OrigXml) + 20 * Len(names) ELSE 0, 4)
    \o PackBE(Len(names), 4) \o PackBE(SffHeaderSize, 2)
    \o PackBE(Len(KeySequence), 2) \o PackBE(Len(FlowChars), 2) \o <<1>>
    \o FlowChars \o KeySequence
    \o Zeros(SffHeaderSize - 31 - Len(FlowChars) - Len(KeySequence))
    \o NamedReads(names)
    \o (IF indexed
        THEN PackBE(IndexMagic, 4) \o <<49, 46, 48, 48>> \o PackBE(Len(OrigXml), 4)
             \o PackBE(20 * Len(names), 4) \o OrigXml
             \o NamedEntries(names, SffHeaderSize)
             \o Zeros(RoundUp8(16 + Len(OrigXml) + 20 * Len(names))
                      - (16 + Len(OrigXml) + 20 * Len(names)))
        ELSE <<>>)

\* The ways an index block is damaged: in its header, or in entry number
\* entry (1 based).
HeaderDamage == {"magic", "version", "length"}
EntryDamage == {"null", "sentinel", "offset"}

Damaged(file, index_offset, kind, entry) ==
    IF kind = "magic" THEN WriteAt(file, index_offset, <<0>>)
    ELSE IF kind = "version" THEN WriteAt(file, index_offset + 4, <<50>>)
    ELSE IF kind = "length" THEN WriteAt(file, index_offset + 15, <<1>>)
    ELSE IF kind = "null"
    THEN WriteAt(file, index_offset + 16 + Len(OrigXml) + 20 * (entry - 1) + 14, <<1>>)
    ELSE IF kind = "sentinel"
    THEN WriteAt(file, index_offset + 16 + Len(OrigXml) + 20 * (entry - 1) + 19, <<254>>)
    ELSE WriteAt(file, index_offset + 16 + Len(OrigXml) + 20 * (entry - 1) + 15,
                 <<0, 0, 0, 0>>)

NameLists == UNION {[1..n -> 1..n] : n \in 1..MaxRecords}

SffFiles ==
    {NamedFile(names, indexed) : names \in NameLists, indexed \in BOOLEAN}
    \cup {Damaged(NamedFile([i \in 1..n |-> i], TRUE),
                  SffHeaderSize + Len(NamedReads([i \in 1..n |-> i])), kind, 1) :
              n \in 1..MaxRecords, kind \in HeaderDamage}
    \cup UNION {{Damaged(NamedFile([i \in 1..n |-> i], TRUE),
                         SffHeaderSize + Len(NamedReads([i \in 1..n |-> i])), kind, entry) :
                     entry \in 1..n, kind \in EntryDamage} : n \in 1..MaxRecords}

SffIndexInputs == {[format |-> f, data |-> d] : f \in SffFormats, d \in SffFiles}

IndexInputs == TextInputs \cup SffIndexInputs

------------------------------------------------------------------------------
(* _IndexedSeqFileDict and _SqliteOffsetDict of _index.py.                  *)

\* A key function given to the facade: "none" is None; "double" stands for
\* a caller's function, here the id written twice.
KeyFunctions == {"none", "double"}
KeyFunction(kf, identifier) == IF kf = "none" THEN identifier ELSE identifier \o identifier

\* self._offsets[key] = seek_position on the in-memory dict.
DictSet(d, key, seek_position) ==
    {p \in d : p[1] # key} \cup {<<key, seek_position>>}

HasKey(rows, key) == \E i \in DOMAIN rows : rows[i][1] = key
HasDuplicate(rows) ==
    \E i, j \in DOMAIN rows : i < j /\ rows[i][1] = rows[j][1]

\* _SqliteOffsetDict._flush: [err, db, pending]. An INSERT fails only
\* against a unique index; the transaction then stays uncommitted.
RECURSIVE InsertRows(_, _, _)
InsertRows(rows, unique, pend) ==
    IF pend = <<>> THEN [err |-> "none", rows |-> rows]
    ELSE IF unique /\ HasKey(rows, pend[1][1]) THEN [err |-> "ValueError", rows |-> rows]
    ELSE InsertRows(Append(rows, pend[1]), unique, Tail(pend))

FlushInserted(d, pend, ins) ==
    IF ins.err # "none" THEN [err |-> ins.err, db |-> d, pending |-> pend]
    ELSE [err |-> "none", db |-> [d EXCEPT !.rows = ins.rows], pending |-> <<>>]
Flush(d, pend) == FlushInserted(d, pend, InsertRows(d.rows, d.unique, pend))

\* _SqliteOffsetDict._finish after its call of _flush: CREATE UNIQUE INDEX.
CreateUniqueIndex(flushed) ==
    IF flushed.err # "none" THEN flushed
    ELSE IF HasDuplicate(flushed.db.rows) THEN [flushed EXCEPT !.err = "ValueError"]
    ELSE [flushed EXCEPT !.db.unique = TRUE]
\* The same without the index being unique.
CreatePlainIndex(flushed) == flushed
Finish(flushed) == CreateUniqueIndex(flushed)

\* An insertion that goes to the table at once, without a batch.
SqliteSetItemUnbatched(d, pend, key, offset) == Flush(d, Append(pend, <<key, offset>>))

\* _SqliteOffsetDict.__setitem__: [err, db, pending]
SqliteSetItem(d, pend, key, offset) ==
    IF Len(pend) + 1 >= BatchSize THEN Flush(d, Append(pend, <<key, offset>>))
    ELSE [err |-> "none", db |-> d, pending |-> Append(pend, <<key, offset>>)]

\* len(self)
LenOf(b, offs, d) == IF b = "memory" THEN Cardinality(offs) ELSE Len(d.rows)
\* keys()
KeysOf(b, offs, d) ==
    IF b = "memory" THEN {p[1] : p \in offs} ELSE {d.rows[i][1] : i \in DOMAIN d.rows}
\* self._offsets[key] for a key that is there; SQLite's fetchone() takes the
\* first row.
OffsetOf(b, offs, d, key) ==
    IF b = "memory" THEN (CHOOSE p \in offs : p[1] = key)[2]
    ELSE d.rows[CHOOSE i \in DOMAIN d.rows :
                    /\ d.rows[i][1] = key
                    /\ \A j \in 1..(i - 1) : d.rows[j][1] # key][2]

\* The id check of _IndexedSeqFileDict.__getitem__ and of
\* SffDict.__getitem__ / SffTrimmedDict.__getitem__.
KeyOfRecord(format, kf, id) ==
    IF format \in SffFormats THEN id ELSE KeyFunction(kf, id)

CheckedRecord(format, kf, key, rec) ==
    IF rec.err # "none" THEN rec
    ELSE IF KeyOfRecord(format, kf, rec.id) # key THEN [rec EXCEPT !.err = "AssertionError"]
    ELSE rec

SffRecordId(r) == [err |-> r.err, id |-> r.rec.id]

\* (mutant) the handle is left where the read before ended.
NoSeek(pos, offset) == pos
\* handle.seek(offset) with the handle at position pos: where the next read
\* starts.
Seek(pos, offset) == offset

\* The offsets of the map.
MapOffsets(b, offs, d) ==
    IF b = "memory" THEN {p[2] : p \in offs} ELSE {d.rows[i][2] : i \in DOMAIN d.rows}

\* Where the record at an offset ends: at the start of the next record of
\* the map, or at the end of the file. The readers leave the handle there.
NextStart(b, offs, d, file, offset) ==
    CHOOSE e \in {o \in MapOffsets(b, offs, d) : o > offset /\ o <= Len(file)}
                 \cup {Max(offset, Len(file))} :
        \A o \in MapOffsets(b, offs, d) : (o > offset /\ o <= Len(file)) => e <= o

\* __getitem__(key) with the handle at position pos: [err, id]
GetItem(format, kf, file, h, pos, b, offs, d, key) ==
    IF key \notin KeysOf(b, offs, d) THEN NotParsed("KeyError")
    ELSE IF format \in SffFormats
    THEN CheckedRecord(format, kf, key,
             SffRecordId(SffReadSeqRecord(file, Seek(pos, OffsetOf(b, offs, d, key)),
                                          h.number_of_flows_per_read, h.flow_chars,
                                          h.key_sequence, format = "sff-trim")))
    ELSE CheckedRecord(format, kf, key,
                       RecordIdAt(format, file, Seek(pos, OffsetOf(b, offs, d, key))))

\* The marker of a SequentialSeqFileDict and of its subclasses, as far as
\* "^marker" is matched against a line.
MarkerOf(format) ==
    IF format = "fasta" THEN GT
    ELSE IF format = "genbank" THEN KwLOCUS
    ELSE IF format = "ig" THEN SEMI
    ELSE KwID

\* SequentialSeqFileDict.get_raw, its loop: the lines from position pos up
\* to the end of the file or to a line the marker matches.
RECURSIVE RawLines(_, _, _)
RawLines(data, pos, marker) ==
    IF ReadLine(data, pos) = <<>> \/ StartsWith(ReadLine(data, pos), marker) THEN <<>>
    ELSE ReadLine(data, pos) \o RawLines(data, pos + Len(ReadLine(data, pos)), marker)

\* SequentialSeqFileDict.get_raw from the offset of the key.
SequentialGetRaw(data, offset, marker) ==
    ReadLine(data, offset)
    \o RawLines(data, offset + Len(ReadLine(data, offset)), marker)

Raw(data) == [err |-> "none", raw |-> data]
NoRaw(kind) == [err |-> kind, raw |-> <<>>]

\* FastqDict.get_raw from the offset of the key: [err, raw].
FastqRawQuals(data, offset, quals) ==
    IF ~quals.ok THEN NoRaw("ValueError")
    ELSE Raw(SubSeq(data, offset + 1, quals.pos))
FastqRawSeq(data, offset, seqs) ==
    IF seqs.eof THEN NoRaw("ValueError")
    ELSE FastqRawQuals(data, offset, FastqQualLines(data, seqs.pos, seqs.seq_len, 0))
FastqGetRaw(kf, key, data, offset) ==
    IF ReadLine(data, offset) = <<>> THEN NoRaw("IndexError")
    ELSE IF ReadLine(data, offset)[1] # AT THEN NoRaw("ValueError")
    ELSE IF Words(RStrip(Tail(ReadLine(data, offset)))) = <<>> THEN NoRaw("IndexError")
    ELSE IF KeyFunction(kf, Words(RStrip(Tail(ReadLine(data, offset))))[1]) # key
    THEN NoRaw("ValueError")
    ELSE FastqRawSeq(data, offset,
                     FastqSeqLines(data, offset + Len(ReadLine(data, offset)), 0))

\* get_raw(key) of the format's class with the handle at position pos:
\* [err, raw]. SffDict and SffTrimmedDict have the method of the base
\* class.
GetRawOf(format, kf, file, pos, b, offs, d, key) ==
    IF format \in SffFormats THEN NoRaw("NotImplementedError")
    ELSE IF key \notin KeysOf(b, offs, d) THEN NoRaw("KeyError")
    ELSE IF format = "tab" THEN Raw(ReadLine(file, Seek(pos, OffsetOf(b, offs, d, key))))
    ELSE IF format = "fastq"
    THEN FastqGetRaw(kf, key, file, Seek(pos, OffsetOf(b, offs, d, key)))
    ELSE Raw(SequentialGetRaw(file, Seek(pos, OffsetOf(b, offs, d, key)),
                              MarkerOf(format)))

\* (mutant) clear() as a dict has it.
Cleared(offs, d, pend) ==
    [err |-> "none", offsets |-> {}, db |-> [d EXCEPT !.rows = <<>>], pending |-> <<>>]
\* __setitem__, update, pop, popitem, clear, fromkeys and copy of the
\* facade, each "raise NotImplementedError": [err, offsets, db, pending].
ReadOnly(offs, d, pend) ==
    [err |-> "NotImplementedError", offsets |-> offs, db |-> d, pending |-> pend]

\* The methods with that body.
RejectedOps == {"__setitem__", "update", "pop", "popitem", "clear", "fromkeys", "copy"}

\* setdefault(key), which the facade has from UserDict.DictMixin: self[key],
\* and on KeyError "self[key] = default": [err, offsets, db, pending].
SetDefault(format, kf, file, h, pos, b, offs, d, pend, key) ==
    IF key \in KeysOf(b, offs, d)
    THEN [err |-> GetItem(format, kf, file, h, pos, b, offs, d, key).err,
          offsets |-> offs, db |-> d, pending |-> pend]
    ELSE ReadOnly(offs, d, pend)

\* "SELECT key FROM data ORDER BY key ASC LIMIT 1" and "... DESC LIMIT 1"
FirstKey(d) ==
    CHOOSE k \in KeysOf("sqlite", {}, d) :
        \A k2 \in KeysOf("sqlite", {}, d) : k2 = k \/ BytesLess(k, k2)
LastKey(d) ==
    CHOOSE k \in KeysOf("sqlite", {}, d) :
        \A k2 \in KeysOf("sqlite", {}, d) : k2 = k \/ BytesLess(k2, k)

\* The test of a reused index in __init__: the exception it raises.
ProbeBoth(format, kf, file, h, d) ==
    IF Len(d.rows) = 0 THEN "none"
    ELSE IF GetItem(format, kf, file, h, 0, "sqlite", {}, d, FirstKey(d)).err # "none"
    THEN "ValueError"
    ELSE IF GetItem(format, kf, file, h,
                    NextStart("sqlite", {}, d, file, OffsetOf("sqlite", {}, d, FirstKey(d))),
                    "sqlite", {}, d, LastKey(d)).err # "none"
    THEN "ValueError"
    ELSE "none"
\* The same with the first key alone.
ProbeFirst(format, kf, file, h, d) ==
    IF Len(d.rows) = 0 THEN "none"
    ELSE IF GetItem(format, kf, file, h, 0, "sqlite", {}, d, FirstKey(d)).err # "none"
    THEN "ValueError"
    ELSE "none"
ProbeIndex(format, kf, file, h, d) == ProbeBoth(format, kf, file, h, d)

\* The _build of the format's class, up to its first loop.
Scanner(format, file) ==
    IF format = "fasta" THEN SequentialBuild(file, 0, GT)
    ELSE IF format = "genbank" THEN GenBankBuild(file, 0)
    ELSE IF format = "embl" THEN EmblBuild(file, 0)
    ELSE IF format = "swiss" THEN SwissBuild(file, 0)
    ELSE IF format = "ig" THEN IntelliGeneticsBuild(file, 0)
    ELSE IF format = "tab" THEN TabBuild(file, 0)
    ELSE IF format = "fastq" THEN FastqBuild(file)
    ELSE Stop("none")

------------------------------------------------------------------------------
(* The index scenario: a facade is constructed over a file (in memory, or  *)
(* with a new index file), records are fetched, and with an index file the *)
(* facade is constructed once more, over the file or a truncated copy.     *)

CodecIdle ==
    /\ rpos = 0
    /\ recs = <<>>
    /\ recsT = <<>>
    /\ stored = <<>>
    /\ out = NoHandle
    /\ w = NoWriter
    /\ todo = <<>>
    /\ wlog = <<>>

InitOver(inputs) ==
    /\ \E input \in inputs :
           /\ fmt = input.format
           /\ src = input.data
    /\ key_function \in KeyFunctions
    /\ backend \in {"memory", "sqlite"}
    /\ handle = <<>>
    /\ offsets = {}
    /\ db = NoDb
    /\ pending = <<>>
    /\ scan = Stop("none")
    /\ recorded = <<>>
    /\ got = NoGot
    /\ hpos = 0
    /\ call = NoCall
    /\ mode = "none"
    /\ pc = "closed"
    /\ hdr = NoHeader("none")
    /\ err = "none"
    /\ CodecIdle
    /\ FnIdle

InitIdx == InitOver(IndexInputs)

\* Where a later constructor call may find the file cut: at, just before and
\* just after the start of an indexed record, or not at all.
CutPoints ==
    {Len(src)} \cup
    ({db.rows[i][2] + d : i \in DOMAIN db.rows, d \in {-1, 0, 1}} \cap 0..Len(src))

\* __init__ up to the loop of _build, or to its end on the reuse branch.
\* cut: the length of the file now.
Open(cut) ==
    /\ \/ pc = "closed" /\ cut = Len(src)
       \/ pc \in {"ready", "failed"} /\ mode = "create"
    /\ handle' = SubSeq(src, 1, cut)
    /\ offsets' = {}
    /\ pending' = <<>>
    /\ recorded' = <<>>
    /\ got' = NoGot
    /\ hpos' = 0
    /\ call' = NoCall
    /\ \E h \in {IF fmt \in SffFormats THEN SffFileHeader(SubSeq(src, 1, cut), 0)
                 ELSE NoHeader("none")} :
           /\ hdr' = h
           /\ IF h.err # "none"
              THEN /\ pc' = "failed"
                   /\ err' = h.err
                   /\ scan' = Stop("none")
                   /\ mode' = "none"
                   /\ UNCHANGED db
              ELSE IF backend = "sqlite" /\ db.exists
              THEN \E e \in {ProbeIndex(fmt, key_function, SubSeq(src, 1, cut), h, db)} :
                       /\ err' = e
                       /\ pc' = IF e = "none" THEN "ready" ELSE "failed"
                       /\ scan' = Stop("none")
                       /\ mode' = "reuse"
                       /\ UNCHANGED db
              ELSE /\ db' = IF backend = "sqlite"
                            THEN [exists |-> TRUE, rows |-> <<>>, unique |-> FALSE]
                            ELSE db
                   /\ mode' = IF backend = "sqlite" THEN "create" ELSE "memory"
                   /\ err' = "none"
                   /\ IF fmt \in SffFormats
                      THEN IF h.index_offset # 0 /\ h.index_length # 0
                           THEN /\ scan' = SffReadRocheIndex(SubSeq(src, 1, cut))
                                /\ pc' = "fast"
                           ELSE /\ scan' = SffDoSlowIndex(SubSeq(src, 1, cut))
                                /\ pc' = "slow"
                      ELSE /\ scan' = Scanner(fmt, SubSeq(src, 1, cut))
                           /\ pc' = "building"
    /\ UNCHANGED <<src, fmt, key_function, backend, codecvars, fnvars>>

\* _record_key for the next pair the scanner yields.
RecordKey ==
    /\ pc \in {"building", "fast", "slow"}
    /\ scan.pairs # <<>>
    /\ scan' = [scan EXCEPT !.pairs = Tail(@)]
    /\ \E key \in {KeyFunction(key_function, scan.pairs[1][1])} :
           /\ recorded' = Append(recorded, <<key, scan.pairs[1][2], scan.pairs[1][1]>>)
           /\ IF backend = "memory"
              THEN /\ offsets' = DictSet(offsets, key, scan.pairs[1][2])
                   /\ UNCHANGED <<db, pending, pc, err>>
              ELSE \E r \in {SqliteSetItem(db, pending, key, scan.pairs[1][2])} :
                       /\ db' = r.db
                       /\ pending' = r.pending
                       /\ err' = r.err
                       /\ pc' = IF r.err = "none" THEN pc ELSE "failed"
                       /\ UNCHANGED offsets
    /\ UNCHANGED <<src, hdr, fmt, key_function, backend, handle, got, hpos, call,
                   mode, codecvars, fnvars>>

\* The end of a text format's _build: its scanner stops or raises.
ScanEnd ==
    /\ pc = "building"
    /\ scan.pairs = <<>>
    /\ err' = scan.err
    /\ pc' = IF scan.err # "none" THEN "failed"
             ELSE IF backend = "sqlite" THEN "finishing" ELSE "ready"
    /\ UNCHANGED <<src, hdr, indexvars, codecvars, fnvars>>

\* SffDict._build after a loop that ended normally: _flush and the count.
BuildCounted(flushed) ==
    /\ db' = flushed.db
    /\ pending' = flushed.pending
    /\ IF flushed.err # "none"
       THEN err' = flushed.err /\ pc' = "failed"
       ELSE IF LenOf(backend, offsets, flushed.db) # hdr.number_of_reads
       THEN err' = "AssertionError" /\ pc' = "failed"
       ELSE err' = "none" /\ pc' = (IF backend = "sqlite" THEN "finishing" ELSE "ready")

\* SffDict._build, the end of the loop over the Roche index.
SffIndexEnd ==
    /\ pc = "fast"
    /\ scan.pairs = <<>>
    /\ IF scan.err = "none"
       THEN /\ BuildCounted(IF backend = "sqlite" THEN Flush(db, pending)
                            ELSE [err |-> "none", db |-> db, pending |-> pending])
            /\ UNCHANGED scan
       ELSE IF scan.err = "ValueError"
       THEN IF LenOf(backend, offsets, db) # 0
            THEN /\ err' = "AssertionError"
                 /\ pc' = "failed"
                 /\ UNCHANGED <<scan, db, pending>>
            ELSE /\ scan' = SffDoSlowIndex(handle)
                 /\ pc' = "slow"
                 /\ UNCHANGED <<err, db, pending>>
       ELSE /\ err' = scan.err
            /\ pc' = "failed"
            /\ UNCHANGED <<scan, db, pending>>
    /\ UNCHANGED <<src, hdr, fmt, key_function, backend, handle, offsets, recorded,
                   got, hpos, call, mode, codecvars, fnvars>>

\* SffDict._build, the end of the loop over the slow scan.
SffSlowEnd ==
    /\ pc = "slow"
    /\ scan.pairs = <<>>
    /\ IF scan.err = "none"
       THEN BuildCounted(IF backend = "sqlite" THEN Flush(db, pending)
                         ELSE [err |-> "none", db |-> db, pending |-> pending])
       ELSE /\ err' = scan.err
            /\ pc' = "failed"
            /\ UNCHANGED <<db, pending>>
    /\ UNCHANGED <<src, hdr, fmt, key_function, backend, handle, offsets, scan,
                   recorded, got, hpos, call, mode, codecvars, fnvars>>

\* __init__ after _build with a new index file: self._offsets._finish()
FinishBuild ==
    /\ pc = "finishing"
    /\ \E r \in {Finish(Flush(db, pending))} :
           /\ db' = r.db
           /\ pending' = r.pending
           /\ err' = r.err
           /\ pc' = IF r.err = "none" THEN "ready" ELSE "failed"
    /\ UNCHANGED <<src, hdr, fmt, key_function, backend, handle, offsets, scan,
                   recorded, got, hpos, call, mode, codecvars, fnvars>>

\* facade[key] for a key of keys()
Get(key) ==
    /\ pc = "ready"
    /\ key \in KeysOf(backend, offsets, db)
    /\ \E r \in {GetItem(fmt, key_function, handle, hdr, hpos, backend, offsets, db,
                         key)} :
           got' = [key |-> key, err |-> r.err, id |-> r.id, before |-> got.err]
    /\ hpos' = NextStart(backend, offsets, db, handle, OffsetOf(backend, offsets, db, key))
    /\ call' = NoCall
    /\ UNCHANGED <<pc, src, hdr, err, fmt, key_function, backend, handle, offsets,
                   db, pending, scan, recorded, mode, codecvars, fnvars>>

\* facade.get_raw(key) for a key of keys()
GetRaw(key) ==
    /\ pc = "ready"
    /\ key \in KeysOf(backend, offsets, db)
    /\ \E r \in {GetRawOf(fmt, key_function, handle, hpos, backend, offsets, db, key)} :
           call' = [op |-> "get_raw", key |-> key, err |-> r.err, raw |-> r.raw,
                    val |-> {}]
    /\ hpos' = IF fmt \in SffFormats THEN hpos
               ELSE NextStart(backend, offsets, db, handle,
                              OffsetOf(backend, offsets, db, key))
    /\ got' = NoGot
    /\ UNCHANGED <<pc, src, hdr, err, fmt, key_function, backend, handle, offsets,
                   db, pending, scan, recorded, mode, codecvars, fnvars>>

\* A key no record of the model has.
AbsentKey == <<120>>

\* One of the methods that would change a dict, called on the facade.
Mutate(op, key) ==
    /\ pc = "ready"
    /\ \E r \in {IF op = "setdefault"
                 THEN SetDefault(fmt, key_function, handle, hdr, hpos, backend, offsets,
                                 db, pending, key)
                 ELSE ReadOnly(offsets, db, pending)} :
           /\ call' = [op |-> op, key |-> key, err |-> r.err, raw |-> <<>>, val |-> {}]
           /\ offsets' = r.offsets
           /\ db' = r.db
           /\ pending' = r.pending
    /\ hpos' = IF op = "setdefault" /\ key \in KeysOf(backend, offsets, db)
               THEN NextStart(backend, offsets, db, handle,
                              OffsetOf(backend, offsets, db, key))
               ELSE hpos
    /\ got' = NoGot
    /\ UNCHANGED <<pc, src, hdr, err, fmt, key_function, backend, handle, scan,
                   recorded, mode, codecvars, fnvars>>

\* key in facade, len(facade), facade.keys(), iter(facade)
Inspect(op, key) ==
    /\ pc = "ready"
    /\ call' = [op |-> op, key |-> key, err |-> "none", raw |-> <<>>,
                val |-> IF op = "__contains__"
                        THEN {key \in KeysOf(backend, offsets, db)}
                        ELSE IF op = "__len__" THEN {LenOf(backend, offsets, db)}
                        ELSE KeysOf(backend, offsets, db)]
    /\ got' = NoGot
    /\ UNCHANGED <<pc, src, hdr, err, fmt, key_function, backend, handle, offsets,
                   db, pending, scan, recorded, hpos, mode, codecvars, fnvars>>

NextIdx ==
    \/ \E cut \in CutPoints : Open(cut)
    \/ RecordKey
    \/ ScanEnd
    \/ SffIndexEnd
    \/ SffSlowEnd
    \/ FinishBuild
    \/ \E key \in KeysOf(backend, offsets, db) : Get(key)
    \/ \E key \in KeysOf(backend, offsets, db) : GetRaw(key)

SpecIdx == InitIdx /\ [][NextIdx]_vars

------------------------------------------------------------------------------
(* The operations scenario: the index scenario over the sound files of at   *)
(* most MaxOpsRecords records with the ids "a" and "b", with every public  *)
(* method of the facade called on the facade once it is constructed.       *)

MaxOpsRecords == 2

OpsInputs ==
    {[format |-> f, data |-> TextFile(f, ids, style)] :
        f \in TextFormats,
        ids \in UNION {[1..n -> {<<97>>, <<98>>}] : n \in 1..MaxOpsRecords},
        style \in {0, 1}}
    \cup {[format |-> f, data |-> NamedFile(names, indexed)] :
              f \in SffFormats,
              names \in UNION {[1..n -> 1..n] : n \in 1..MaxOpsRecords},
              indexed \in BOOLEAN}

InitOps == InitOver(OpsInputs)

NextOps ==
    \/ NextIdx
    \/ \E op \in RejectedOps : Mutate(op, <<>>)
    \/ \E key \in KeysOf(backend, offsets, db) \cup {AbsentKey} :
           Mutate("setdefault", key)
    \/ \E key \in KeysOf(backend, offsets, db) \cup {AbsentKey} :
           Inspect("__contains__", key)
    \/ \E op \in {"__len__", "keys", "__iter__"} : Inspect(op, <<>>)

SpecOps == InitOps /\ [][NextOps]_vars

------------------------------------------------------------------------------
(* The function scenario: one function of SffIO.py is called on one        *)
(* argument: the offset codec of the index block on an offset or on four   *)
(* digits, _sff_file_header on a header, and the two indexers on one file  *)
(* as the module's self test calls them.                                   *)

MaxSmallOffset == 300
LongSeqLen == 80

\* Python's integers are unbounded. An offset is given here as <<hi, lo>>,
\* standing for hi * 16581375 + lo with lo < 16581375; it is an integer of
\* the model when hi is below WideFrom.
Cube255 == 16581375
WideFrom == 2147483647 \div Cube255

\* OffsetDigits on an offset of 2^31 or more: 16581375 is a multiple of 255
\* and of 65025, so each "%" of _write_index is taken on lo.
WideOffsetDigits(hi, lo) ==
    LET off0 == lo % 255
        a == lo - off0
        off1 == a % 65025
        b == a - off1
        off2 == b % Cube255
        off3 == hi
    IN  <<off3, off2 \div 65025, off1 \div 255, off0>>
\* DecodeOffset as <<hi, lo>>.
WideDecodeOffset(digits) ==
    <<digits[1] + (digits[4] + 255 * digits[3] + 65025 * digits[2]) \div Cube255,
      (digits[4] + 255 * digits[3] + 65025 * digits[2]) % Cube255>>

\* The digits packed for <<hi, lo>>, and the <<hi, lo>> read from digits.
DigitsOf(hi, lo) ==
    IF hi < WideFrom THEN OffsetDigits(hi * Cube255 + lo) ELSE WideOffsetDigits(hi, lo)
OffsetOfDigits(digits) ==
    IF digits[1] < WideFrom
    THEN <<DecodeOffset(digits) \div Cube255, DecodeOffset(digits) % Cube255>>
    ELSE WideDecodeOffset(digits)

\* Offsets around every power of 255 and of 256, below and above 2^31, and
\* all the small ones.
OffsetSamples ==
    {<<0, lo>> : lo \in 0..MaxSmallOffset}
    \cup {<<hi, lo>> : hi \in {0, 1, 127, 128, 129, 254},
                       lo \in {0, 1, 254, 255, 256, 65024, 65025, 65026, 65535, 65536,
                               195840, Cube255 - 255, Cube255 - 1}}
DigitSamples == {0, 1, 127, 128, 254}

OffsetArgs == {[kind |-> "offset", hi |-> x[1], lo |-> x[2]] : x \in OffsetSamples}
DigitArgs ==
    {[kind |-> "digits", digits |-> <<a, b, c, d>>] :
        a \in DigitSamples, b \in DigitSamples, c \in DigitSamples, d \in DigitSamples}

\* A file header laid out from its field values, with pad_length bytes of
\* padding whose last byte is pad_byte, and the start of a read after it.
HeaderLayout(magic, ver, index, flowgram_format, header_length, flows, key,
             pad_length, pad_byte) ==
    PackBE(magic, 4) \o ver \o PackBE(index[1], 8) \o PackBE(index[2], 4)
    \o PackBE(1, 4) \o PackBE(header_length, 2) \o PackBE(Len(key), 2)
    \o PackBE(Len(flows), 2) \o <<flowgram_format>> \o flows \o key
    \o [i \in 1..pad_length |-> IF i = pad_length THEN pad_byte ELSE 0]
    \o <<0, 32, 0, 14>>

HeaderFlows == {<<FlowChars, KeySequence>>, <<FlowChars, <<>> >>}

HeaderArgs ==
    {[kind |-> "header",
      data |-> HeaderLayout(magic, ver, index, ff,
                            RoundUp8(31 + Len(fk[1]) + Len(fk[2])) + delta,
                            fk[1], fk[2],
                            Max(0, RoundUp8(31 + Len(fk[1]) + Len(fk[2])) + delta
                                   - 31 - Len(fk[1]) - Len(fk[2])),
                            pad_byte)] :
        magic \in {SffMagic, SffMagic + 1},
        ver \in {<<0, 0, 0, 1>>, <<0, 0, 0, 2>>, <<1, 0, 0, 1>>},
        index \in {<<0, 0>>, <<48, 39>>, <<48, 0>>, <<0, 39>>},
        ff \in {0, 1, 2},
        delta \in {-8, 0, 1, 4, 8},
        fk \in HeaderFlows,
        pad_byte \in {0, 1}}

\* The file with index entry number entry (1 based) pointing at the start
\* of the first read.
Misdirected(file, index_offset, entry) ==
    WriteAt(file, index_offset + 16 + Len(OrigXml) + 20 * (entry - 1) + 15,
            Base255(SffHeaderSize))
\* The file with index entry number entry (1 based) holding offset.
Redirected(file, index_offset, entry, offset) ==
    WriteAt(file, index_offset + 16 + Len(OrigXml) + 20 * (entry - 1) + 15,
            Base255(offset))
\* The file with a byte set in the padding after the name of the first read.
NamePadded(file) == WriteAt(file, SffHeaderSize + 16 + 14 + 1, <<1>>)

LongShape == [seq_len |-> LongSeqLen, cql |-> 0, cqr |-> 0, adapter |-> <<0, 0>>]

\* sound: the index block lists each read with the offset it starts at, and
\* the reads are well-formed.
IndexArgs ==
    {[kind |-> "index", sound |-> TRUE, data |-> NamedFile(names, TRUE)] :
        names \in NameLists}
    \cup {[kind |-> "index", sound |-> TRUE, data |-> FileLayout(n, 1, LongShape, TRUE)] :
              n \in 1..(MaxReads + 1)}
    \cup UNION {{[kind |-> "index", sound |-> FALSE,
                  data |-> Misdirected(NamedFile([i \in 1..n |-> i], TRUE),
                                       SffHeaderSize + Len(NamedReads([i \in 1..n |-> i])),
                                       entry)] : entry \in 2..n} : n \in 2..MaxRecords}
    \cup {[kind |-> "index", sound |-> FALSE,
           data |-> NamePadded(NamedFile([i \in 1..n |-> i], TRUE))] : n \in 1..MaxRecords}

\* Files for _sff_read_roche_index alone: entry number entry of the index
\* holds an offset around the two ends of the region of the reads.
RocheArgs ==
    UNION {{[kind |-> "roche",
             data |-> Redirected(NamedFile([i \in 1..n |-> i], TRUE),
                                 SffHeaderSize + Len(NamedReads([i \in 1..n |-> i])),
                                 entry, offset)] :
                entry \in 1..n,
                offset \in {SffHeaderSize - 1, SffHeaderSize, SffHeaderSize + 1,
                            SffHeaderSize + Len(NamedReads([i \in 1..n |-> i])) - 1,
                            SffHeaderSize + Len(NamedReads([i \in 1..n |-> i])),
                            SffHeaderSize + Len(NamedReads([i \in 1..n |-> i])) + 1}} :
           n \in 1..MaxRecords}

\* FASTQ files for FastqDict._build. A record is its title line, the lines
\* of its sequence, its "+" line and the lines of its quality string; its
\* shape gives the text after the identifier on the title line, the lines
\* of the sequence and the lines of the quality string.
MaxFastq == 2

RECURSIVE Lines(_)
Lines(ls) == IF ls = <<>> THEN <<>> ELSE ls[1] \o <<NL>> \o Lines(Tail(ls))
RECURSIVE TotalLen(_)
TotalLen(ls) == IF ls = <<>> THEN 0 ELSE Len(ls[1]) + TotalLen(Tail(ls))

\* As many quality characters as bases; quality lines that begin with "@"
\* or "+", one of them reading as the title line of a record; a read of no
\* bases, with an empty sequence line and an empty quality line.
FastqShapes ==
    {[desc |-> <<>>, seqs |-> <<<<65, 67>>>>, quals |-> <<<<73, 73>>>>],
     [desc |-> <<>>, seqs |-> <<<<>>>>, quals |-> <<<<>>>>],
     [desc |-> <<SP, 100>>, seqs |-> <<<<65>>, <<67>>>>, quals |-> <<<<AT, 73>>>>],
     [desc |-> <<>>, seqs |-> <<<<65, 67>>, <<71>>>>, quals |-> <<<<PLUS, 73>>, <<AT>>>>],
     [desc |-> <<>>, seqs |-> <<<<65, 67, 71, 84>>>>, quals |-> <<<<AT, 73>>, <<AT, 98>>>>]}
\* Fewer or more quality characters than bases.
FastqBadShapes ==
    {[desc |-> <<>>, seqs |-> <<<<65, 67, 71>>>>, quals |-> <<<<73, 73>>>>],
     [desc |-> <<>>, seqs |-> <<<<65, 67, 71, 84>>>>, quals |-> <<<<73, 73>>>>],
     [desc |-> <<>>, seqs |-> <<<<65>>>>, quals |-> <<<<73, 73>>>>]}

FastqName(k) == <<96 + k>>
\* Record number k of a file, its title line starting with mark.
FastqRecord(k, shape, mark) ==
    <<mark>> \o FastqName(k) \o shape.desc \o <<NL>> \o Lines(shape.seqs)
    \o <<PLUS, NL>> \o Lines(shape.quals)

RECURSIVE FastqFile(_, _, _)
FastqFile(shapes, marks, k) ==
    IF k > Len(shapes) THEN <<>>
    ELSE FastqRecord(k, shapes[k], marks[k]) \o FastqFile(shapes, marks, k + 1)

\* The records of the file before record number k (1 based) is malformed:
\* before its title line when that does not start with "@", and with it
\* when its quality string has the wrong length.
RECURSIVE FastqSoundPrefix(_, _, _)
FastqSoundPrefix(shapes, marks, k) ==
    IF k > Len(shapes) \/ marks[k] # AT THEN k - 1
    ELSE IF shapes[k] \in FastqBadShapes THEN k
    ELSE FastqSoundPrefix(shapes, marks, k + 1)

\* expect: the identifier and the position of the title line of each record.
FastqArgs ==
    UNION {{[kind |-> "fastq",
             data |-> FastqFile(shapes, marks, 1),
             sound |-> /\ \A k \in 1..n : shapes[k] \in FastqShapes
                       /\ \A k \in 1..n : marks[k] = AT,
             kept |-> FastqSoundPrefix(shapes, marks, 1),
             expect |-> [k \in 1..n |->
                            <<FastqName(k), Len(FastqFile(SubSeq(shapes, 1, k - 1),
                                                        SubSeq(marks, 1, k - 1), 1))>>]] :
                shapes \in [1..n -> FastqShapes \cup FastqBadShapes],
                marks \in {m \in [1..n -> {AT, 120}] : m[1] = AT}} :
           n \in 1..MaxFastq}

\* GenBank and EMBL files for the two accession scanners. Style 2 is a
\* record that ends after its accession: no VERSION, FEATURES, ORIGIN or
\* "//" line (GenBank), no line after the ID line (EMBL), so that the line
\* after it is the marker line of the next record or the end of the file.
FlatRecord(format, id, style) ==
    IF style # 2 THEN TextRecord(format, id, style)
    ELSE IF format = "genbank" THEN <<KwLOCUS, 120, NL, KwACCESSION>> \o id \o <<NL>>
    ELSE <<KwID>> \o id \o <<SEMI, SP, KwSV, 49, SEMI, SEMI, SEMI, SEMI, SEMI, NL>>

RECURSIVE FlatFile(_, _, _)
FlatFile(format, styles, k) ==
    IF k > Len(styles) THEN <<>>
    ELSE FlatRecord(format, FastqName(k), styles[k]) \o FlatFile(format, styles, k + 1)

FlatArgs ==
    UNION {{[kind |-> "flat", format |-> f, data |-> FlatFile(f, styles, 1)] :
                f \in {"genbank", "embl"}, styles \in [1..n -> {0, 1, 2}]} :
           n \in 1..MaxRecords}

\* Records for write_record alone. GoodRecord(k) is the read named
\* ReadName(k) as SffIterator decodes it with trim=False; a defect takes
\* from it what write_record asks for, or gives it flow data other than the
\* file header's; "trimmed" is the same read decoded with trim=True, which
\* carries no annotations.
GoodRecord(k) ==
    SffReadSeqRecord(NamedFile(<<k>>, FALSE), SffHeaderSize, Len(FlowChars),
                     FlowChars, KeySequence, FALSE).rec
RecordDefects ==
    {"phred", "flow", "flow_values", "clip", "clip_qual_left", "flow_key", "flow_chars",
     "trimmed"}
Spoiled(k, defect) ==
    IF defect = "phred" THEN [GoodRecord(k) EXCEPT !.letter = {}]
    ELSE IF defect = "flow" THEN [GoodRecord(k) EXCEPT !.ann = ClipKeys]
    ELSE IF defect = "flow_values"
    THEN [GoodRecord(k) EXCEPT !.ann = @ \ {"flow_values"}]
    ELSE IF defect = "clip" THEN [GoodRecord(k) EXCEPT !.ann = FlowKeys]
    ELSE IF defect = "clip_qual_left"
    THEN [GoodRecord(k) EXCEPT !.ann = @ \ {"clip_qual_left"}]
    ELSE IF defect = "flow_key" THEN [GoodRecord(k) EXCEPT !.flow_key = <<65, 67>>]
    ELSE IF defect = "flow_chars" THEN [GoodRecord(k) EXCEPT !.flow_chars = <<65>>]
    ELSE IF defect = "trimmed"
    THEN SffReadSeqRecord(NamedFile(<<k>>, FALSE), SffHeaderSize, Len(FlowChars),
                          FlowChars, KeySequence, TRUE).rec
    ELSE GoodRecord(k)

\* The writer and its handle after write_header and n good records.
HeaderWritten(index) ==
    [NewWriter(index, FALSE, <<>>) EXCEPT !.has_flow = TRUE,
                                         !.key_sequence = KeySequence,
                                         !.flow_chars = FlowChars,
                                         !.number_of_flows_per_read = Len(FlowChars)]
Started(index, n) ==
    WriteRecords([err |-> "none", w |-> HeaderWritten(index),
                  h |-> WriteHeader(HeaderWritten(index), NoHandle)],
                 [k \in 1..n |-> GoodRecord(k)])

RecordArgs ==
    {[kind |-> "record", defect |-> defect, record |-> Spoiled(n + 1, defect),
      w |-> Started(index, n).w, h |-> Started(index, n).h] :
        defect \in RecordDefects \cup {"none"}, index \in BOOLEAN, n \in 0..MaxReads}

\* Record lists for write_file, of reads in name order or in the opposite
\* order (up): read number k is GoodRecord(k) or GoodRecord(n + 1 - k), with
\* its name cut to 13 characters (lens[k] = 13), left at 14, or extended to
\* 15. The writer is given no xml or a string of four bytes.
Renamed(k, len) ==
    IF len = 13 THEN [GoodRecord(k) EXCEPT !.id = SubSeq(@, 2, 14)]
    ELSE IF len = 15 THEN [GoodRecord(k) EXCEPT !.id = <<69>> \o @]
    ELSE GoodRecord(k)
GivenXml == <<60, 47, 62, 10>>
FileArgs ==
    UNION {{[kind |-> "file",
             records |-> [k \in 1..n |-> Renamed(IF up THEN k ELSE n + 1 - k, lens[k])],
             as_list |-> as_list, index |-> index, seekable |-> seekable,
             xml_is_str |-> xml_is_str,
             xml |-> IF xml_is_str THEN GivenXml ELSE <<>>] :
                lens \in [1..n -> {13, 14, 15}], up \in BOOLEAN, as_list \in BOOLEAN,
                index \in BOOLEAN, seekable \in BOOLEAN, xml_is_str \in BOOLEAN} :
           n \in 1..(MaxReads + 1)}

FnArgs == OffsetArgs \cup DigitArgs \cup HeaderArgs \cup IndexArgs \cup FastqArgs \cup FlatArgs
          \cup RocheArgs \cup RecordArgs \cup FileArgs

InitFn ==
    /\ arg \in FnArgs
    /\ ret = NoRet
    /\ pc = "fn_call"
    /\ src = <<>>
    /\ hdr = NoHeader("none")
    /\ err = "none"
    /\ CodecIdle
    /\ IndexIdle

\* _write_index packs the digits of an offset (struct.pack refuses a digit
\* above 255), _sff_read_roche_index reads them back.
EncodeOffset ==
    /\ pc = "fn_call"
    /\ arg.kind = "offset"
    /\ \E digits \in {DigitsOf(arg.hi, arg.lo)} :
           ret' = [err |-> IF \E i \in 1..4 : digits[i] > 255
                           THEN "struct.error" ELSE "none",
                   digits |-> digits,
                   offset |-> OffsetOfDigits(digits)]
    /\ pc' = "fn_done"
    /\ UNCHANGED <<src, hdr, err, arg, codecvars, indexvars>>

\* _sff_read_roche_index reads the digits of an entry, _write_index packs
\* the offset again.
DecodeDigits ==
    /\ pc = "fn_call"
    /\ arg.kind = "digits"
    /\ \E offset \in {OffsetOfDigits(arg.digits)} :
           ret' = [err |-> "none",
                   offset |-> offset,
                   digits |-> DigitsOf(offset[1], offset[2])]
    /\ pc' = "fn_done"
    /\ UNCHANGED <<src, hdr, err, arg, codecvars, indexvars>>

\* _sff_file_header on a handle at the start of the header.
ReadHeader ==
    /\ pc = "fn_call"
    /\ arg.kind = "header"
    /\ ret' = SffFileHeader(arg.data, 0)
    /\ pc' = "fn_done"
    /\ UNCHANGED <<src, hdr, err, arg, codecvars, indexvars>>

\* The self test: index1 = sorted(_sff_read_roche_index(...)),
\* index2 = sorted(_sff_do_slow_index(...)), assert index1 == index2.
SelfTest(fast, slow) ==
    IF fast.err # "none" THEN [err |-> fast.err, index1 |-> <<>>, index2 |-> <<>>]
    ELSE IF slow.err # "none"
    THEN [err |-> slow.err, index1 |-> SortIndex(fast.pairs), index2 |-> <<>>]
    ELSE [err |-> IF SortIndex(fast.pairs) = SortIndex(slow.pairs)
                  THEN "none" ELSE "AssertionError",
          index1 |-> SortIndex(fast.pairs), index2 |-> SortIndex(slow.pairs)]

CompareIndexes ==
    /\ pc = "fn_call"
    /\ arg.kind = "index"
    /\ ret' = SelfTest(SffReadRocheIndex(arg.data), SffDoSlowIndex(arg.data))
    /\ pc' = "fn_done"
    /\ UNCHANGED <<src, hdr, err, arg, codecvars, indexvars>>

\* FastqDict._build on a handle at the start of the file: the pairs handed
\* to _record_key and the exception that ends the scan.
BuildFastq ==
    /\ pc = "fn_call"
    /\ arg.kind = "fastq"
    /\ ret' = FastqBuild(arg.data)
    /\ pc' = "fn_done"
    /\ UNCHANGED <<src, hdr, err, arg, codecvars, indexvars>>

\* GenBankDict._build and EmblDict._build on a handle at the start of the
\* file.
BuildGenBank ==
    /\ pc = "fn_call"
    /\ arg.kind = "flat"
    /\ arg.format = "genbank"
    /\ ret' = GenBankBuild(arg.data, 0)
    /\ pc' = "fn_done"
    /\ UNCHANGED <<src, hdr, err, arg, codecvars, indexvars>>

BuildEmbl ==
    /\ pc = "fn_call"
    /\ arg.kind = "flat"
    /\ arg.format = "embl"
    /\ ret' = EmblBuild(arg.data, 0)
    /\ pc' = "fn_done"
    /\ UNCHANGED <<src, hdr, err, arg, codecvars, indexvars>>

\* _sff_read_roche_index on a handle: the pairs it yields and the exception
\* that ends it.
ReadRocheIndex ==
    /\ pc = "fn_call"
    /\ arg.kind = "roche"
    /\ ret' = SffReadRocheIndex(arg.data)
    /\ pc' = "fn_done"
    /\ UNCHANGED <<src, hdr, err, arg, codecvars, indexvars>>

\* write_record on a writer whose header is written.
WriteOne ==
    /\ pc = "fn_call"
    /\ arg.kind = "record"
    /\ ret' = WriteRecord(arg.w, arg.h, arg.record)
    /\ pc' = "fn_done"
    /\ UNCHANGED <<src, hdr, err, arg, codecvars, indexvars>>

\* SffWriter(handle, index).write_file(records) on a fresh handle.
WriteWholeFile ==
    /\ pc = "fn_call"
    /\ arg.kind = "file"
    /\ ret' = WriteFileOn(arg.records, arg.as_list, arg.index, arg.xml_is_str, arg.xml,
                           arg.seekable)
    /\ pc' = "fn_done"
    /\ UNCHANGED <<src, hdr, err, arg, codecvars, indexvars>>

NextFn ==
    \/ EncodeOffset
    \/ DecodeDigits
    \/ ReadHeader
    \/ CompareIndexes
    \/ BuildFastq
    \/ BuildGenBank
    \/ BuildEmbl
    \/ ReadRocheIndex
    \/ WriteOne
    \/ WriteWholeFile

SpecFn == InitFn /\ [][NextFn]_vars

------------------------------------------------------------------------------
(* Claims about the SFF codec, checked under SpecSff. *)

\* The clip fields of the i-th record written, as they stand in the output.
WrittenFields(i) == ReadHeaderFields(Read(out.data, wlog[i], 16))

\* C1: decoding every read of a valid SFF file untrimmed and writing the
\* records back with write_file (same flow chars and key sequence, the XML
\* of the original index) reproduces the original file byte for byte.
C1_RoundTrip == pc = "sff_done" => out.data = src

\* C3: for every read, the trimmed decode equals the untrimmed decode
\* sliced to [clip_qual_left, clip_qual_right) and upper-cased when the
\* stored clip bounds are non-zero; when they are zero ("not clipped") the
\* trimmed decode is the whole untrimmed sequence upper-cased, with the
\* whole quality list.
C3_TrimConsistency ==
    \A i \in 1..Len(recs) :
        /\ (stored[i].clip_qual_left # 0 /\ stored[i].clip_qual_right # 0)
            => /\ recsT[i].seq = Upper(Slice(recs[i].seq, recs[i].clip_qual_left,
                                             recs[i].clip_qual_right))
               /\ recsT[i].quals = Slice(recs[i].quals, recs[i].clip_qual_left,
                                         recs[i].clip_qual_right)
        /\ (stored[i].clip_qual_left = 0 /\ stored[i].clip_qual_right = 0)
            => /\ recsT[i].seq = Upper(recs[i].seq)
               /\ recsT[i].quals = recs[i].quals

\* The convention as C4 states it: 0 stays 0, a positive value loses 1 when
\* decoded and gains 1 when encoded.
ClaimedDecode(v) == IF v = 0 THEN 0 ELSE v - 1
ClaimedEncode(v) == IF v = 0 THEN 0 ELSE v + 1

\* C4 as stated: the convention holds for each of the four clip fields.
C4_AllFourFields ==
    /\ \A i \in 1..Len(recs) :
        /\ recs[i].clip_qual_left = ClaimedDecode(stored[i].clip_qual_left)
        /\ recs[i].clip_qual_right = ClaimedDecode(stored[i].clip_qual_right)
        /\ recs[i].clip_adapter_left = ClaimedDecode(stored[i].clip_adapter_left)
        /\ recs[i].clip_adapter_right = ClaimedDecode(stored[i].clip_adapter_right)
    /\ err = "none" =>
        \A i \in 1..Len(wlog) :
        /\ WrittenFields(i).clip_qual_left = ClaimedEncode(recs[i].clip_qual_left)
        /\ WrittenFields(i).clip_qual_right = ClaimedEncode(recs[i].clip_qual_right)
        /\ WrittenFields(i).clip_adapter_left = ClaimedEncode(recs[i].clip_adapter_left)
        /\ WrittenFields(i).clip_adapter_right = ClaimedEncode(recs[i].clip_adapter_right)

\* C4 (amended): the convention holds for clip_qual_left and
\* clip_adapter_left: decoding maps a stored 0 to 0 and a positive v to
\* v - 1, encoding maps an in-memory 0 to 0 and a positive v to v + 1;
\* clip_qual_right and clip_adapter_right are decoded and encoded unchanged.
C4_LeftFieldsOnly ==
    /\ \A i \in 1..Len(recs) :
        /\ recs[i].clip_qual_left = ClaimedDecode(stored[i].clip_qual_left)
        /\ recs[i].clip_adapter_left = ClaimedDecode(stored[i].clip_adapter_left)
        /\ recs[i].clip_qual_right = stored[i].clip_qual_right
        /\ recs[i].clip_adapter_right = stored[i].clip_adapter_right
    /\ err = "none" =>
        \A i \in 1..Len(wlog) :
        /\ WrittenFields(i).clip_qual_left = ClaimedEncode(recs[i].clip_qual_left)
        /\ WrittenFields(i).clip_adapter_left = ClaimedEncode(recs[i].clip_adapter_left)
        /\ WrittenFields(i).clip_qual_right = recs[i].clip_qual_right
        /\ WrittenFields(i).clip_adapter_right = recs[i].clip_adapter_right

\* A file was decoded and written whose read has positive left and right
\* clip fields, of both kinds.
C4_Witness ==
    /\ pc = "sff_done"
    /\ \E i \in 1..Len(wlog) :
        /\ stored[i].clip_qual_left > 1 /\ stored[i].clip_qual_right > 0
        /\ stored[i].clip_adapter_left > 1 /\ stored[i].clip_adapter_right > 0
        /\ WrittenFields(i).clip_qual_left = stored[i].clip_qual_left

\* Where the i-th record written ends in the output: at the next record,
\* at the index block, or at the handle position.
WrittenEnd(i) ==
    IF i < Len(wlog) THEN wlog[i + 1]
    ELSE IF pc = "sff_done" /\ w.index_on THEN w.index_start
    ELSE out.pos

\* The bytes of the output at positions a + 1 .. b are b - a zero bytes,
\* fewer than 8.
ZeroPad(a, b) ==
    /\ a <= b
    /\ b - a < 8
    /\ \A j \in (a + 1)..b : out.data[j] = 0

\* C13: during write_file the bytes emitted for the file header, for each
\* read record and for the index block with its pad are a multiple of 8, so
\* the handle is at a multiple of 8 after the header, after every record
\* and after the index; the pad bytes (after the key sequence, after each
\* name, after each record's qualities, after the index) are zero; the
\* output is never shortened after it was written.
C13_PaddingInvariant ==
    /\ [](( pc \in {"sff_writing", "sff_index", "sff_done"} /\ err = "none") =>
            /\ wlog[1] % 8 = 0
            /\ ZeroPad(31 + w.number_of_flows_per_read + Len(w.key_sequence), wlog[1])
            /\ out.pos % 8 = 0
            /\ Len(out.data) = out.pos
            /\ \A i \in DOMAIN wlog :
                /\ wlog[i] % 8 = 0
                /\ (WrittenEnd(i) - wlog[i]) % 8 = 0
                /\ WrittenFields(i).read_header_length % 8 = 0
                /\ ZeroPad(wlog[i] + 16 + WrittenFields(i).name_length,
                           wlog[i] + WrittenFields(i).read_header_length)
                /\ ZeroPad(wlog[i] + WrittenFields(i).read_header_length
                               + 2 * w.number_of_flows_per_read
                               + 3 * WrittenFields(i).seq_len,
                           WrittenEnd(i))
            /\ (pc = "sff_done" /\ w.index_on) =>
                /\ (out.pos - w.index_start) % 8 = 0
                /\ ZeroPad(w.index_start + w.index_length, out.pos))
    /\ [][Len(out'.data) >= Len(out.data)]_vars

\* Two reads and an index block were written; a record and the index block
\* needed pad bytes.
C13_Witness ==
    /\ pc = "sff_done"
    /\ w.index_on
    /\ Len(wlog) = 2
    /\ w.index_length % 8 # 0
    /\ \E i \in DOMAIN wlog :
           (2 * w.number_of_flows_per_read + 3 * WrittenFields(i).seq_len) % 8 = 5

\* The header write_header packs before the read count and the index
\* position are known.
PlaceholderHeader ==
    HeaderBytes([w EXCEPT !.number_of_reads = 0, !.index_start = 0, !.index_length = 0])

\* C14: every write_header call of one write_file (placeholder, read-count
\* patch, index patch) writes round_up_to_8(31 + flows_per_read +
\* key_length) bytes at offset 0: the header in the output is always the
\* one packed from the writer's fields, it ends where the first read record
\* starts, the first record's bytes stay as they were written, and only
\* the index_offset, index_length and number_of_reads fields (bytes 9..24)
\* differ from the placeholder.
C14_TwoPassHeader ==
    (pc \in {"sff_writing", "sff_index", "sff_done"} /\ err = "none") =>
        /\ Len(HeaderBytes(w))
               = RoundUp8(31 + w.number_of_flows_per_read + Len(w.key_sequence))
        /\ wlog[1] = Len(HeaderBytes(w))
        /\ SubSeq(out.data, 1, wlog[1]) = HeaderBytes(w)
        /\ SubSeq(out.data, wlog[1] + 1, WrittenEnd(1)) = RecordBytes(w, recs[1])
        /\ \A j \in (1..8) \cup (25..wlog[1]) : out.data[j] = PlaceholderHeader[j]

\* The header was written three times: the output of two records has the
\* read count and the index position in its header.
C14_Witness ==
    /\ pc = "sff_done"
    /\ w.index_on
    /\ Len(wlog) = 2
    /\ UnpackBE(SubSeq(out.data, 21, 24)) = 2
    /\ UnpackBE(SubSeq(out.data, 9, 16)) = w.index_start
    /\ w.index_start > wlog[2]
    /\ SubSeq(out.data, 1, wlog[1]) # PlaceholderHeader

\* The two ways of the self test to write the records read: as a list and
\* as an iterator, to a writer set up as the one of the run.
WriteFileOf(as_list) ==
    WriteFile(recs, as_list, SffReadRocheIndexXml(src).err = "none",
              SffReadRocheIndexXml(src).err = "none", SffReadRocheIndexXml(src).xml)

\* C16: write_file gives the same bytes and returns the same count whether
\* the records come as a list or as an iterator, and both are what the
\* run wrote; the number_of_reads field of the final header (bytes 21..24)
\* is the number of records written.
C16_ListIteratorSame ==
    (pc = "sff_done" /\ err = "none") =>
        /\ WriteFileOf(TRUE).err = "none"
        /\ WriteFileOf(FALSE) = WriteFileOf(TRUE)
        /\ WriteFileOf(TRUE).data = out.data
        /\ WriteFileOf(TRUE).count = Len(recs)
        /\ UnpackBE(SubSeq(WriteFileOf(FALSE).data, 21, 24)) = Len(wlog)
        /\ UnpackBE(SubSeq(WriteFileOf(TRUE).data, 21, 24)) = Len(wlog)
        /\ Len(wlog) = Len(recs)

\* Two records were written with no index block, so that only the patch
\* after the loop can put the count into an iterator's header.
C16_Witness ==
    /\ pc = "sff_done"
    /\ err = "none"
    /\ ~w.index_on
    /\ Len(wlog) = 2
    /\ WriteFileOf(FALSE).count = 2
    /\ UnpackBE(SubSeq(out.data, 21, 24)) = 2

\* C20: for every stored value v of clip_qual_left and of
\* clip_adapter_left (every v >= 0, v = 1 included), decoding a read and
\* writing the decoded record stores v again.
C20_LeftClipRoundTrip ==
    err = "none" =>
        \A i \in 1..Len(wlog) :
            /\ WrittenFields(i).clip_qual_left = stored[i].clip_qual_left
            /\ WrittenFields(i).clip_adapter_left = stored[i].clip_adapter_left

\* C21: the untrimmed decode of a read returns seq_len bases, the stored
\* bases but for case (the reads of the model's files hold BasesOf(seq_len)),
\* upper case exactly at the positions p with clip_qual_left <= p <
\* clip_qual_right (counted from 0, with the clip values of the record's
\* annotations) and lower case elsewhere, and seq_len qualities; whatever
\* the order of the two clip values.
C21_UntrimmedShape ==
    \A i \in DOMAIN recs :
        /\ Len(recs[i].seq) = stored[i].seq_len
        /\ Upper(recs[i].seq) = BasesOf(stored[i].seq_len)
        /\ Len(recs[i].quals) = stored[i].seq_len
        /\ \A j \in DOMAIN recs[i].seq :
               (recs[i].seq[j] = Upper(recs[i].seq)[j])
                   <=> (recs[i].clip_qual_left < j /\ j <= recs[i].clip_qual_right)

\* C26: on the input file, whose reads are well-formed, _sff_do_slow_index
\* ends without an exception and yields number_of_reads pairs; the first
\* offset is header_length, each offset is a multiple of 8 and greater than
\* the one before; the pairs of the reads decoded so far carry the names of
\* the decoded records, and the offset of the next pair is the position
\* where the sequential decoder (_sff_read_seq_record) stands after the
\* reads before it.
SlowScanAgrees(slow) ==
    /\ slow.err = "none"
    /\ Len(slow.pairs) = hdr.number_of_reads
    /\ slow.pairs[1][2] = hdr.header_length
    /\ \A k \in DOMAIN slow.pairs : slow.pairs[k][2] % 8 = 0
    /\ \A k \in 2..Len(slow.pairs) : slow.pairs[k][2] > slow.pairs[k - 1][2]
    /\ \A k \in DOMAIN recs : slow.pairs[k][1] = recs[k].id
    /\ Len(recs) < hdr.number_of_reads => slow.pairs[Len(recs) + 1][2] = rpos
C26_SlowScanMatchesDecoder ==
    pc = "sff_reading" => SlowScanAgrees(SffDoSlowIndex(src))
\* The decoder has read the first of two reads, whose flows, bases and
\* qualities are followed by padding, and stands where the second starts.
C26_Witness ==
    /\ pc = "sff_reading"
    /\ hdr.number_of_reads = 2
    /\ Len(recs) = 1
    /\ (2 * hdr.number_of_flows_per_read + 3 * stored[1].seq_len) % 8 # 0
    /\ rpos = SffDoSlowIndex(src).pairs[2][2]

------------------------------------------------------------------------------
(* Claims about the index, checked under SpecIdx. *)

\* The offset of the first _record_key call of this build with the key.
FirstRecorded(key) ==
    recorded[CHOOSE i \in DOMAIN recorded :
                 /\ recorded[i][1] = key
                 /\ \A j \in 1..(i - 1) : recorded[j][1] # key][2]

\* C2: with the in-memory backend, a build over a file in which two records
\* yield the same key raises at the insertion of the second one (the build
\* has failed as soon as a key was recorded twice, no facade is returned),
\* and an insertion never replaces the offset stored first for the key.
C2_DuplicateRejected ==
    mode = "memory" =>
        /\ HasDuplicate(recorded) => pc = "failed"
        /\ \A p \in offsets : p[2] = FirstRecorded(p[1])

\* The set of pairs in the store and its pending buffer.
StoredPairs ==
    IF backend = "memory" THEN offsets
    ELSE {db.rows[i] : i \in DOMAIN db.rows} \cup {pending[i] : i \in DOMAIN pending}
\* The pairs the slow scan of the open file yields, under the key function.
SlowPairs ==
    {<<KeyFunction(key_function, SffDoSlowIndex(handle).pairs[i][1]),
       SffDoSlowIndex(handle).pairs[i][2]>> :
        i \in DOMAIN SffDoSlowIndex(handle).pairs}

\* An SFF file with an index block that fails validation was opened for a
\* build, and SffDict._build is over.
FailedIndexBuildOver ==
    /\ fmt \in SffFormats
    /\ mode \in {"memory", "create"}
    /\ hdr.err = "none"
    /\ hdr.index_offset # 0
    /\ SffReadRocheIndex(handle).err # "none"
    /\ pc \in {"ready", "finishing", "failed"}

\* C5: when the Roche index fails validation at any point, also after
\* entries were recorded, _build falls back to the slow scan and ends with
\* exactly the slow-scan pairs: the build does not fail, and the store and
\* its pending buffer hold the slow-scan pairs and nothing else, each once.
C5_IndexFallback ==
    FailedIndexBuildOver =>
        /\ pc # "failed"
        /\ StoredPairs = SlowPairs
        /\ backend = "sqlite" => Len(db.rows) + Len(pending) = Cardinality(SlowPairs)

\* Where the record that starts at offset ends in the indexed file src: for
\* SFF where its decoder stops, for a text format where the next record of
\* the table starts.
RecordEnd(offset) ==
    IF fmt \in SffFormats
    THEN SffReadSeqRecord(src, offset, hdr.number_of_flows_per_read, hdr.flow_chars,
                          hdr.key_sequence, FALSE).pos
    ELSE IF \E i \in DOMAIN db.rows : db.rows[i][2] > offset
    THEN CHOOSE e \in {db.rows[i][2] : i \in DOMAIN db.rows} :
             e > offset /\ \A i \in DOMAIN db.rows : db.rows[i][2] > offset => e <= db.rows[i][2]
    ELSE Len(src)

\* The open file is a truncated copy that lacks the record of the key
\* altogether / lacks a part of it / has all of it.
Removed(key) == Len(handle) <= OffsetOf("sqlite", {}, db, key)
Cut(key) == Len(handle) < RecordEnd(OffsetOf("sqlite", {}, db, key))
Whole(key) == ~Cut(key)

\* The constructor has run on its reuse branch, over an index file that a
\* build had finished.
ReopenedBuiltIndex == mode = "reuse" /\ db.unique /\ db.rows # <<>>

\* C6 as stated: reopening a finished index against a truncated copy that
\* removes or cuts at least one indexed record raises at open time.
C6_StaleRejected ==
    (ReopenedBuiltIndex /\ \E i \in DOMAIN db.rows : Cut(db.rows[i][1]))
        => pc = "failed"

\* C6 (amended): the open raises when the truncation removes the record of
\* the alphabetically first or of the alphabetically last key (for SFF also
\* when it cuts one of the two); when it leaves both records whole, and
\* these two lookups work on the full file, the open returns a facade,
\* whatever became of the other records.
C6_FirstAndLastProbed ==
    ReopenedBuiltIndex =>
        /\ (Removed(FirstKey(db)) \/ Removed(LastKey(db))) => pc = "failed"
        /\ (fmt \in SffFormats /\ (Cut(FirstKey(db)) \/ Cut(LastKey(db))))
               => pc = "failed"
        /\ ( /\ Whole(FirstKey(db))
             /\ Whole(LastKey(db))
             /\ GetItem(fmt, key_function, src, hdr, 0, "sqlite", {}, db, FirstKey(db)).err = "none"
             /\ GetItem(fmt, key_function, src, hdr, 0, "sqlite", {}, db, LastKey(db)).err = "none")
               => pc = "ready"

\* An SFF index of three reads was reopened against a copy that has lost
\* its last read, which is neither first nor last by name: a facade came
\* back.
C6_Witness ==
    /\ ReopenedBuiltIndex
    /\ fmt = "sff"
    /\ Len(db.rows) = 3
    /\ pc = "ready"
    /\ \E i \in DOMAIN db.rows : Removed(db.rows[i][1])

\* The rows of the table are the _record_key calls of this build.
AllInserted ==
    /\ pending = <<>>
    /\ db.rows = [i \in DOMAIN recorded |-> <<recorded[i][1], recorded[i][2]>>]

C8_AbortedStoreUnusable ==
    (mode = "reuse" /\ ~db.unique /\ handle = src) => pc # "ready"

\* The id of the record decoded at an offset of the open file.
DecodeAt(offset) ==
    IF fmt \in SffFormats
    THEN SffRecordId(SffReadSeqRecord(handle, offset, hdr.number_of_flows_per_read,
                                      hdr.flow_chars, hdr.key_sequence,
                                      fmt = "sff-trim"))
    ELSE RecordIdAt(fmt, handle, offset)

\* C9: every (identifier, offset) pair a scanner hands to _record_key over
\* a well-formed file is such that decoding one record at offset succeeds
\* and gives a record whose id is the identifier.
C9_OffsetCorrect ==
    (mode \in {"memory", "create"} /\ handle = src) =>
        \A i \in DOMAIN recorded :
            /\ DecodeAt(recorded[i][2]).err = "none"
            /\ DecodeAt(recorded[i][2]).id = recorded[i][3]

\* A FASTQ file of three records, with quality lines that start with "@",
\* was scanned to its end.
C9_Witness ==
    /\ fmt = "fastq"
    /\ mode = "memory"
    /\ pc = "ready"
    /\ Len(recorded) = 3
    /\ recorded[3][2] > 20
    /\ \A i, j \in DOMAIN recorded : i # j => recorded[i][2] # recorded[j][2]

\* C10: after a successful build over an unmodified file, for every key k of
\* keys() get(k) succeeds and returns a record r with f(r.id) = k, for every
\* format and key function f.
C10_LookupConsistent ==
    (mode \in {"memory", "create"} /\ got # NoGot) =>
        /\ got.err = "none"
        /\ KeyFunction(key_function, got.id) = got.key

\* The bytes of the open file from the recorded start of the key's record
\* up to the start of the next indexed record, or to the end of the file.
RecordRange(key) ==
    SubSeq(handle, OffsetOf(backend, offsets, db, key) + 1,
           NextStart(backend, offsets, db, handle, OffsetOf(backend, offsets, db, key)))

\* C17: for a facade of a text format over the file it was built from,
\* get_raw(key) returns the bytes from the record's recorded start up to
\* the start of the next indexed record or the end of the file; for an
\* SFF facade get_raw raises.
C17_GetRawExact ==
    (pc = "ready" /\ call.op = "get_raw" /\ handle = src) =>
        IF fmt \in SffFormats THEN call.err = "NotImplementedError"
        ELSE /\ call.err = "none"
             /\ call.raw = RecordRange(call.key)

\* The key-to-offset mapping of the facade.
Mapping == <<offsets, db, pending>>

\* What facade[key] gives on a handle nothing was read from before.
FreshGet(key) ==
    GetItem(fmt, key_function, handle, hdr, 0, backend, offsets, db, key)

\* An operation of the facade has just been carried out.
Operated == pc = "ready" /\ (got' # NoGot \/ call' # NoCall)

Intact(key) ==
    /\ GetItem(fmt, key_function, src, hdr, 0, backend, offsets, db, key).err = "none"
    /\ Len(handle) >= NextStart(backend, offsets, db, src,
                                 OffsetOf(backend, offsets, db, key))
    /\ SubSeq(handle, 1, NextStart(backend, offsets, db, src,
                                    OffsetOf(backend, offsets, db, key)))
           = SubSeq(src, 1, NextStart(backend, offsets, db, src,
                                      OffsetOf(backend, offsets, db, key)))

\* C19: a __getitem__ that fails aborts only that call: the step leaves the
\* key-to-offset mapping as it was, and the __getitem__ after it gives what
\* it would give had the failed call not happened, which for an intact
\* record is the record of the key.
C19_FailureIsolation ==
    /\ []((pc = "ready" /\ got # NoGot /\ got.before # "none") =>
            /\ got.err = FreshGet(got.key).err
            /\ got.id = FreshGet(got.key).id
            /\ Intact(got.key) =>
                   /\ got.err = "none"
                   /\ KeyOfRecord(fmt, key_function, got.id) = got.key)
    /\ [][(pc = "ready" /\ pc' = "ready" /\ got' # NoGot) => Mapping' = Mapping]_vars

\* A __getitem__ failed and the next one, for the key of an intact record,
\* returned its record.
C19_Witness ==
    /\ pc = "ready"
    /\ got.before # "none"
    /\ got.err = "none"
    /\ got.key \in KeysOf(backend, offsets, db)
    /\ hpos > 0

\* The pairs handed to __setitem__ since the index was created, in order.
Inserted == [k \in DOMAIN recorded |-> <<recorded[k][1], recorded[k][2]>>]

\* C27: while an index file is built and after it, fewer than BatchSize
\* pairs are pending; the rows of the table followed by the pending pairs
\* are the inserted pairs in their order, so the table is a prefix of the
\* insertion sequence; during the scan the table holds whole batches only;
\* len and keys are those of the table. The table changes only by taking
\* all pending pairs at once, a whole batch or what _flush finds at the end
\* of the build, and _finish leaves nothing pending and every inserted pair
\* in the table.
BatchedRows ==
    (backend = "sqlite" /\ mode = "create") =>
        /\ Len(pending) < BatchSize
        /\ db.rows \o pending = Inserted
        /\ pc \in {"building", "fast", "slow"} => Len(db.rows) % BatchSize = 0
        /\ LenOf(backend, offsets, db) = Len(db.rows)
        /\ KeysOf(backend, offsets, db) = {db.rows[i][1] : i \in DOMAIN db.rows}
WholeBatch ==
    /\ db'.rows # db.rows =>
           /\ pending' = <<>>
           /\ db'.rows = Inserted'
           /\ Len(db'.rows) - Len(db.rows) = BatchSize \/ pc \in {"fast", "slow", "finishing"}
    /\ pc = "finishing" => (pending' = <<>> /\ db'.rows = Inserted')
C27_BatchedFlush == [](BatchedRows) /\ [][WholeBatch]_vars
\* A batch is in the table and a later pair is pending.
C27_Witness ==
    /\ backend = "sqlite" /\ mode = "create"
    /\ pc = "building"
    /\ Len(db.rows) = BatchSize
    /\ Len(pending) = 1

------------------------------------------------------------------------------
(* Claims about single functions of SffIO.py, checked under SpecFn. *)

\* C11 as stated: for any SFF file whose embedded Roche index parses
\* without error, the sorted (key, offset) pairs of the fast index path
\* equal the sorted pairs of the slow full scan.
C11_IndexAgreement ==
    (pc = "fn_done" /\ arg.kind = "index" /\ SffReadRocheIndex(arg.data).err = "none")
        => (ret.err = "none" /\ ret.index1 = ret.index2)

\* C11 (amended): for an SFF file with well-formed reads whose Roche index
\* lists every read under its name with the offset the read starts at, both
\* paths end without error and their sorted pairs are equal, one pair per
\* read; when an entry gives another offset that is in the allowed range,
\* or a read is malformed, the index still parses and the two paths differ.
C11_SoundIndexAgreement ==
    (pc = "fn_done" /\ arg.kind = "index") =>
        /\ SffReadRocheIndex(arg.data).err = "none"
        /\ arg.sound =>
            /\ ret.err = "none"
            /\ ret.index1 = ret.index2
            /\ Len(ret.index1) = SffFileHeader(arg.data, 0).number_of_reads
        /\ ~arg.sound => ret.err # "none"

\* The two paths were compared on a file of reads that are not in name
\* order, with a read that starts beyond offset 255.
C11_Witness ==
    /\ pc = "fn_done"
    /\ arg.kind = "index"
    /\ arg.sound
    /\ ret.err = "none"
    /\ Len(ret.index1) >= 2
    /\ ret.index1[1][2] > 255
    /\ ret.index1[1][2] > ret.index1[2][2]

\* C12: for every offset x in 0 .. 255^4 - 1 the four digits the index
\* writer computes are each in 0..254, and b0 + 255*b1 + 65025*b2 +
\* 16581375*b3 of these digits is x; for any four digits each in 0..254,
\* encoding the decoded value returns the same four digits.
C12_Base255RoundTrip ==
    pc = "fn_done" =>
        /\ arg.kind = "offset" =>
            /\ ret.err = "none"
            /\ \A i \in 1..4 : ret.digits[i] \in 0..254
            /\ ret.offset = <<arg.hi, arg.lo>>
            /\ ret.digits[1] = arg.hi
            /\ ret.digits[4] + 255 * ret.digits[3] + 65025 * ret.digits[2] = arg.lo
        /\ arg.kind = "digits" =>
            /\ ret.digits = arg.digits
            /\ ret.offset[1] = arg.digits[1]
            /\ ret.offset[2] = arg.digits[4] + 255 * arg.digits[3] + 65025 * arg.digits[2]

\* The largest offset, 255^4 - 1, was encoded: four digits 254.
C12_Witness ==
    /\ pc = "fn_done"
    /\ arg.kind = "offset"
    /\ arg.hi = 254
    /\ arg.lo = Cube255 - 1
    /\ ret.digits = <<254, 254, 254, 254>>
    /\ ret.offset = <<254, Cube255 - 1>>

\* The conditions of C15 on the bytes of a header.
ValidHeader(data) ==
    /\ UnpackBE(SubSeq(data, 1, 4)) = 779314790
    /\ SubSeq(data, 5, 8) = <<0, 0, 0, 1>>
    /\ data[31] = 1
    /\ (UnpackBE(SubSeq(data, 9, 16)) = 0) = (UnpackBE(SubSeq(data, 17, 20)) = 0)
    /\ UnpackBE(SubSeq(data, 25, 26))
           = RoundUp8(31 + UnpackBE(SubSeq(data, 29, 30)) + UnpackBE(SubSeq(data, 27, 28)))
    /\ \A i \in (31 + UnpackBE(SubSeq(data, 29, 30)) + UnpackBE(SubSeq(data, 27, 28)) + 1)
                ..UnpackBE(SubSeq(data, 25, 26)) : data[i] = 0

\* C15: _sff_file_header returns header values only if the magic number,
\* the version, the flowgram format, the index fields, the header length
\* and the padding are as required; in each other case it fails with a
\* format error (ValueError) and returns no header.
C15_HeaderValidated ==
    (pc = "fn_done" /\ arg.kind = "header") =>
        /\ ret.err = "none" <=> ValidHeader(arg.data)
        /\ ret.err # "none" => (ret.err = "ValueError" /\ ret = NoHeader("ValueError"))

\* C22: FastqDict._build on a file whose record number kept + 1 starts with
\* a line that is not an "@" line, or whose record number kept has a quality
\* string shorter or longer than its sequence, raises an exception, and the
\* keys it has recorded are those of the first kept records, each with the
\* position of its title line: no key after the malformed boundary.
C22_MalformedFastqRaises ==
    (pc = "fn_done" /\ arg.kind = "fastq" /\ ~arg.sound)
        => /\ ret.err # "none"
           /\ ret.pairs = SubSeq(arg.expect, 1, arg.kept)

\* The positions of the lines of a file that start with marker, from pos on.
RECURSIVE MarkerLines(_, _, _)
MarkerLines(data, marker, pos) ==
    IF ReadLine(data, pos) = <<>> THEN <<>>
    ELSE (IF StartsWith(ReadLine(data, pos), marker) THEN <<pos>> ELSE <<>>)
         \o MarkerLines(data, marker, pos + Len(ReadLine(data, pos)))

\* C23: the GenBank and the EMBL scanner record one key per marker line of
\* the file (LOCUS, ID), each at the offset of its marker line, also when
\* the scan for the accession of a record stopped at the marker line of the
\* next record.
C23_NoRecordLost ==
    (pc = "fn_done" /\ arg.kind = "flat")
        => [k \in DOMAIN ret.pairs |-> ret.pairs[k][2]]
               = MarkerLines(arg.data, MarkerOf(arg.format), 0)

\* C24: for a FASTQ file of well-formed records, with wrapped sequence and
\* quality lines, with quality lines that begin with "@" or "+" and with
\* reads of no bases, FastqDict._build ends without an exception and
\* records one pair per record, in file order: the first word after "@" on
\* the title line and the position of the title line.
C24_FastqBoundaries ==
    (pc = "fn_done" /\ arg.kind = "fastq" /\ arg.sound)
        => /\ ret.err = "none"
           /\ ret.pairs = arg.expect

\* C25: every offset that _sff_read_roche_index yields lies in the region of
\* the reads, header_length <= offset < index_offset with the two values of
\* the file header; the reader yields no entry whose offset is outside.
C25_OffsetBound ==
    (pc = "fn_done" /\ arg.kind = "roche")
        => \A k \in DOMAIN ret.pairs :
               /\ SffFindRocheIndex(arg.data).header_length <= ret.pairs[k][2]
               /\ ret.pairs[k][2] < SffFindRocheIndex(arg.data).index_offset

\* C28: write_record raises ValueError for a record without phred
\* qualities, without (all of) the flow annotations, without (all of) the
\* clip annotations, or with a flow_key or flow_chars other than the file
\* header's; the handle then holds the bytes and the position it had, and
\* the writer, its pending index list included, is as it was.
C28_RejectionLeavesOutput ==
    (pc = "fn_done" /\ arg.kind = "record" /\ arg.defect # "none")
        => /\ ret.err = "ValueError"
           /\ ret.h = arg.h
           /\ ret.w.index = arg.w.index
           /\ ret.w = arg.w
\* A record with another flow_key was refused by a writer that keeps an
\* index and has written a read.
C28_Witness ==
    /\ pc = "fn_done" /\ arg.kind = "record" /\ arg.defect = "flow_key"
    /\ ret.err = "ValueError"
    /\ arg.w.index_on
    /\ Len(arg.w.index) = 1
    /\ Len(arg.h.data) > SffHeaderSize

\* The position after n reads decoded one after the other from pos.
RECURSIVE DecodeEnd(_, _, _)
DecodeEnd(data, pos, n) ==
    IF n = 0 THEN pos
    ELSE DecodeEnd(data,
                   SffReadSeqRecord(data, pos, Len(FlowChars), FlowChars, KeySequence,
                                    FALSE).pos,
                   n - 1)

\* C29: write_file of well-formed records completes unless the records come
\* as an iterator and the handle cannot seek. When the writer keeps an
\* index, the handle can seek and every name has 14 characters, the file
\* ends with an index block that starts after the last read, where the
\* header's index_offset points, with index_length as the header says, and
\* that lists every read with its offset. In every other case (no index
\* asked for, no seek, a name of another length at any place) no byte
\* follows the last read and both header fields are 0.
WrittenIndexWhole(file, n, indexed, xml) ==
    /\ SffFileHeader(file, 0).err = "none"
    /\ SffFileHeader(file, 0).number_of_reads = n
    /\ IF indexed
       THEN /\ SffFileHeader(file, 0).index_offset = DecodeEnd(file, SffHeaderSize, n)
            /\ SffFileHeader(file, 0).index_length = 16 + Len(xml) + 20 * n
            /\ Len(file) = DecodeEnd(file, SffHeaderSize, n)
                           + RoundUp8(16 + Len(xml) + 20 * n)
            /\ SffReadRocheIndex(file).err = "none"
            /\ Len(SffReadRocheIndex(file).pairs) = n
            /\ SortIndex(SffReadRocheIndex(file).pairs) = SortIndex(SffDoSlowIndex(file).pairs)
       ELSE /\ SffFileHeader(file, 0).index_offset = 0
            /\ SffFileHeader(file, 0).index_length = 0
            /\ Len(file) = DecodeEnd(file, SffHeaderSize, n)
C29_IndexAllOrNothing ==
    (pc = "fn_done" /\ arg.kind = "file") =>
        IF ~arg.as_list /\ ~arg.seekable THEN ret.err = "ValueError"
        ELSE /\ ret.err = "none"
             /\ ret.count = Len(arg.records)
             /\ WrittenIndexWhole(ret.data, Len(arg.records),
                    /\ arg.index
                    /\ arg.seekable
                    /\ \A k \in DOMAIN arg.records : Len(arg.records[k].id) = 14,
                    IF arg.xml_is_str THEN arg.xml ELSE DefaultXml)
\* Three reads were written by a writer that keeps an index; the last one
\* has a name of 13 characters, and the file has no index.
C29_Witness ==
    /\ pc = "fn_done" /\ arg.kind = "file"
    /\ arg.index /\ arg.seekable
    /\ Len(arg.records) = 3
    /\ Len(arg.records[1].id) = 14 /\ Len(arg.records[2].id) = 14
    /\ Len(arg.records[3].id) = 13
    /\ ret.err = "none"
    /\ SffFileHeader(ret.data, 0).index_offset = 0

\* C30: when write_file has written an index block (index asked for, a
\* handle that can seek, names of 14 characters), _sff_find_roche_index
\* accepts the file; the header's index_length is 16 + len(xml) + 20 *
\* number_of_reads; the file ends on a multiple of 8 bytes, less than 8
\* bytes after the last entry, and these bytes are 0; the xml is the one
\* given; the entries are in ascending order of their names, whatever the
\* order of the writes, and are the reads' names with their offsets.
IndexBlockLaidOut(file, n, xml) ==
    /\ SffFindRocheIndex(file).err = "none"
    /\ SffFindRocheIndex(file).index_length = 16 + Len(xml) + 20 * n
    /\ SffFindRocheIndex(file).read_index_size = 20 * n
    /\ SffReadRocheIndexXml(file).xml = xml
    /\ Len(file) % 8 = 0
    /\ Len(file) = RoundUp8(SffFindRocheIndex(file).index_offset
                            + SffFindRocheIndex(file).index_length)
    /\ \A p \in (SffFindRocheIndex(file).index_offset
                 + SffFindRocheIndex(file).index_length + 1)..Len(file) : file[p] = 0
    /\ SffReadRocheIndex(file).err = "none"
    /\ \A k \in 1..(n - 1) :
           BytesLess(SffReadRocheIndex(file).pairs[k][1],
                     SffReadRocheIndex(file).pairs[k + 1][1])
    /\ {SffReadRocheIndex(file).pairs[k] : k \in 1..n}
           = {SffDoSlowIndex(file).pairs[k] : k \in 1..n}
C30_IndexBlockLayout ==
    (/\ pc = "fn_done" /\ arg.kind = "file"
     /\ arg.index /\ arg.seekable
     /\ \A k \in DOMAIN arg.records : Len(arg.records[k].id) = 14)
        => /\ ret.err = "none"
           /\ IndexBlockLaidOut(ret.data, Len(arg.records),
                                IF arg.xml_is_str THEN arg.xml ELSE DefaultXml)
\* Three reads were written in descending order of their names, and the
\* index block needed no padding.
C30_Witness ==
    /\ pc = "fn_done" /\ arg.kind = "file"
    /\ ret.err = "none"
    /\ Len(arg.records) = 3
    /\ BytesLess(arg.records[3].id, arg.records[1].id)
    /\ SffFindRocheIndex(ret.data).err = "none"
    /\ SffFindRocheIndex(ret.data).index_length % 8 = 0

====
